---- MODULE Spec2Model ----
(***************************************************************************)
(* Model of the dual-mode HID keyboard application                         *)
(* (hid/dual_mode_keyboard/keyboard.c): the event queue, the per-report    *)
(* state, the key-type dispatcher, the report generation loop, the error   *)
(* response and the protocol / link callbacks.                             *)
(*                                                                         *)
(* Every C function is an operator from machine state to machine state,    *)
(* named after the function.  The machine state `m` is a record holding    *)
(* the fields of tKbAppState, the globals kbapp_protocol and               *)
(* kbapp_funcLock_state, the answers of the collaborators consulted        *)
(* during the call (transport, buffer pool, clock) and the log of the      *)
(* calls made.  An action applies one entry point to the current state.    *)
(***************************************************************************)
EXTENDS Integers, Sequences, FiniteSets, TLC

(***************************************************************************)
(* Bounds of the model                                                     *)
(***************************************************************************)
\* kbAppConfig.maxKeysInStdRpt (K), scaled down
maxKeysInStdRpt == 2
\* kbAppConfig.recoveryPollCount, scaled down
recoveryPollCount == 2
\* longest batch of events the keyscan driver hands over in one poll
MaxBatch == 2

\* the longest sequence of events for one key that is tried on a state
MaxKeySeq == 3
MaxScrollScale == 2
MaxScrollCount == 3

(***************************************************************************)
(* Program constants                                                       *)
(***************************************************************************)
KEY_DOWN == 0
KEY_UP == 1
END_OF_SCAN_CYCLE == 255
KB_MAX_KEYS == 160
\* a scan code the keyscan driver reports for a ghost key
GHOST_SCAN_CODE == 245
KEYRPT_CODE_ROLLOVER == 1
\* kbAppConfig.maxEventNum: capacity of the event queue
maxEventNum == 3
\* kbAppConfig.numBitMappedKeys and the bytes that hold them
numBitMappedKeys == 16
NumBitRptBytes == 2
\* wiced_bt_buffer_poolutilization threshold (percent)
PoolThreshold == 80

FUNC_LOCK_STATE_OFF == 0
FUNC_LOCK_STATE_ON == 1
FUNC_LOCK_EVENT_FLAG == 2
PROTOCOL_BOOT == 0
PROTOCOL_REPORT == 1
PIN_ENTRY_MODE_NONE == 0
LEGACY_PIN_ENTRY_IN_PROGRESS == 1
PASS_KEY_ENTRY_IN_PROGRESS == 2

USB_USAGE_1 == 30
USB_USAGE_ENTER == 40
USB_USAGE_F1 == 58
USB_USAGE_POWER == 102
USB_USAGE_0 == 39
USB_USAGE_9 == 38
USB_USAGE_ESCAPE == 41
USB_USAGE_BACKSPACE == 42
USB_USAGE_DELETE == 76
USB_USAGE_KP_ENTER == 88
USB_USAGE_KP_1 == 89
USB_USAGE_KP_9 == 97
USB_USAGE_KP_0 == 98
ASCII_0 == 48
KEY_ENTRY_EVENT_START == 0
KEY_ENTRY_EVENT_CHAR == 1
KEY_ENTRY_EVENT_BACKSPACE == 2
KEY_ENTRY_EVENT_RESTART == 3
KEY_ENTRY_EVENT_STOP == 4
KEY_ENTRY_EVENT_MAX == 5
PIN_ENTRY_EVENT_INVALID == 0
PIN_ENTRY_EVENT_CHAR == 1
PIN_ENTRY_EVENT_BACKSPACE == 2
PIN_ENTRY_EVENT_RESTART == 3
PASS_KEY_ENTRY_EVENT_START == 10
PASS_KEY_ENTRY_EVENT_CHAR == 11
PASS_KEY_ENTRY_EVENT_BACKSPACE == 12
PASS_KEY_ENTRY_EVENT_RESTART == 13
PASS_KEY_ENTRY_EVENT_STOP == 14
MAX_PIN_SIZE == 2
MAX_PASS_SIZE == 3

(***************************************************************************)
(* Key configuration (kbKeyConfig[]) and the func-lock translation table   *)
(***************************************************************************)
NumStdKeys == maxKeysInStdRpt + 1

\* scan codes 0 .. NumStdKeys-1 are standard keys with usage codes
\* USB_USAGE_1, USB_USAGE_2, ...; then one key of every other type
StdKeyConfig(i) == [type |-> "KEY_TYPE_STD", translationValue |-> USB_USAGE_1 + i]

OtherKeyConfig ==
    << [type |-> "KEY_TYPE_MODIFIER",      translationValue |-> 2],
       [type |-> "KEY_TYPE_BIT_MAPPED",    translationValue |-> 9],
       [type |-> "KEY_TYPE_SLEEP",         translationValue |-> 1],
       [type |-> "KEY_TYPE_FUNC_LOCK",     translationValue |-> 0],
       [type |-> "KEY_TYPE_FUNC_LOCK_DEP", translationValue |-> 0],
       [type |-> "KEY_TYPE_NONE",          translationValue |-> 0],
       [type |-> "KEY_TYPE_STD",           translationValue |-> USB_USAGE_ENTER],
       [type |-> "KEY_TYPE_MODIFIER",      translationValue |-> 4],
       [type |-> "KEY_TYPE_STD",           translationValue |-> USB_USAGE_BACKSPACE],
       [type |-> "KEY_TYPE_STD",           translationValue |-> USB_USAGE_ESCAPE] >>

kbKeyConfig_size == NumStdKeys + Len(OtherKeyConfig)

\* kbKeyConfig[keyCode], keyCode < kbKeyConfig_size
kbKeyConfig(keyCode) ==
    IF keyCode < NumStdKeys THEN StdKeyConfig(keyCode)
    ELSE OtherKeyConfig[keyCode - NumStdKeys + 1]

SC_MOD      == NumStdKeys
SC_BIT      == NumStdKeys + 1
SC_SLEEP    == NumStdKeys + 2
SC_FUNCLOCK == NumStdKeys + 3
SC_DEP      == NumStdKeys + 4
SC_NONE     == NumStdKeys + 5
SC_ENTER    == NumStdKeys + 6
SC_MOD2     == NumStdKeys + 7
SC_BACKSPACE == NumStdKeys + 8
SC_ESCAPE   == NumStdKeys + 9

\* kbFuncLockDepKeyTransTab[index] (first entries of the table)
kbFuncLockDepKeyTransTab(index) ==
    CASE index = 0 -> [bitRptCode |-> 3,  stdRptCode |-> USB_USAGE_F1]
      [] index = 1 -> [bitRptCode |-> 5,  stdRptCode |-> USB_USAGE_F1 + 1]
      [] index = 2 -> [bitRptCode |-> 8,  stdRptCode |-> USB_USAGE_F1 + 2]
      [] OTHER     -> [bitRptCode |-> 0,  stdRptCode |-> USB_USAGE_POWER]

(***************************************************************************)
(* Byte arithmetic                                                         *)
(***************************************************************************)
RECURSIVE BitAnd(_, _)
BitAnd(a, b) ==
    IF a = 0 \/ b = 0 THEN 0
    ELSE (a % 2) * (b % 2) + 2 * BitAnd(a \div 2, b \div 2)

BitOr(a, b) == a + b - BitAnd(a, b)
BitClear(a, b) == a - BitAnd(a, b)

RECURSIVE Pow2(_)
Pow2(n) == IF n = 0 THEN 1 ELSE 2 * Pow2(n - 1)

RECURSIVE PopCount(_)
PopCount(a) == IF a = 0 THEN 0 ELSE (a % 2) + PopCount(a \div 2)

(***************************************************************************)
(* Events                                                                  *)
(***************************************************************************)
KeyEvent(keyCode, upDownFlag) ==
    [eventType |-> "HID_EVENT_KEY_STATE_CHANGE", keyCode |-> keyCode,
     upDownFlag |-> upDownFlag, motion |-> 0]
MotionEvent(motion) ==
    [eventType |-> "HID_EVENT_MOTION_AXIS_0", keyCode |-> 0,
     upDownFlag |-> 0, motion |-> motion]
OverflowEvent ==
    [eventType |-> "HID_EVENT_EVENT_FIFO_OVERFLOW", keyCode |-> 0,
     upDownFlag |-> 0, motion |-> 0]

\* the log of calls made during one entry point; every entry records the
\* arguments and the recovery count, protocol, func-lock state and queue
\* length at the moment of the call
Call(m, op, data) ==
    [m EXCEPT !.log = Append(@, [op |-> op, data |-> data,
                                 recovery |-> m.recoveryInProgress,
                                 protocol |-> m.kbapp_protocol,
                                 funcLock |-> m.funcLockInfo.state,
                                 queued   |-> Len(m.eventQueue)])]

(***************************************************************************)
(* Event queue: the wiced_hidd_event_queue functions                       *)
(***************************************************************************)
\* an event is queued while more than one slot is free; the last free slot
\* takes an overflow event instead; a full queue drops the event
wiced_hidd_event_queue_add_event_with_overflow(m, e) ==
    IF Len(m.eventQueue) < maxEventNum - 1
    THEN [m EXCEPT !.eventQueue = Append(@, e)]
    ELSE IF Len(m.eventQueue) = maxEventNum - 1
         THEN [m EXCEPT !.eventQueue = Append(@, OverflowEvent)]
         ELSE m

wiced_hidd_event_queue_remove_current_element(m) ==
    LET m1 == Call(m, "wiced_hidd_event_queue_remove_current_element", <<>>)
    IN  IF m1.eventQueue = <<>> THEN m1
        ELSE [m1 EXCEPT !.eventQueue = Tail(@)]

wiced_hidd_event_queue_flush(m) == [m EXCEPT !.eventQueue = <<>>]

(***************************************************************************)
(* Collaborators: transport and buffer pool                                *)
(***************************************************************************)
\* wiced_hidd_host_transport() == BT_TRANSPORT_LE
IsLE(m) == m.link.transport = "BT_TRANSPORT_LE"

\* wiced_ble_hidd_link_send_report / wiced_bt_hidd_send_data on the
\* interrupt channel: the report goes to the host
SendReport(m, rpt, data) == Call(m, rpt, data)

TxOps == {"tx_std", "tx_rollover", "tx_bit", "tx_slp", "tx_funcLock",
          "tx_scroll", "tx_bat", "tx_pin"}
KeyTxOps == {"tx_std", "tx_bit", "tx_slp", "tx_funcLock", "tx_scroll"}

\* wiced_bt_buffer_poolutilization(HCI_ACL_POOL_ID): the pool answers
\* "below the threshold" to the next m.poolRoom checks of the drain loop
wiced_bt_buffer_poolutilization(m) ==
    IF m.poolRoom > 0 THEN PoolThreshold - 1 ELSE PoolThreshold

(***************************************************************************)
(* Report transmission                                                     *)
(***************************************************************************)
StdRptData(rpt) == <<rpt.modifierKeys>> \o rpt.keyCodes

rolloverRpt ==
    [modifierKeys |-> 0,
     keyCodes |-> [i \in 1..maxKeysInStdRpt |-> KEYRPT_CODE_ROLLOVER]]

kbapp_stdRptRolloverSend(m) ==
    SendReport([m EXCEPT !.rolloversInWindow = @ + 1],
               "tx_rollover", StdRptData(rolloverRpt))

\* a variant that leaves the report marked as changed
kbapp_stdRptSend_KeepChanged(m) ==
    SendReport([m EXCEPT !.idleDue = FALSE, !.stdRptSent = StdRptData(m.stdRpt)],
               "tx_std", StdRptData(m.stdRpt))

\* stdRptTxInstant is set to the current clock, so the idle period is not
\* over again during this call
kbapp_stdRptSend(m) ==
    SendReport([m EXCEPT !.stdRptChanged = FALSE, !.idleDue = FALSE,
                         !.stdRptSent = StdRptData(m.stdRpt)],
               "tx_std", StdRptData(m.stdRpt))

kbapp_bitRptSend(m) ==
    SendReport([m EXCEPT !.bitRptChanged = FALSE],
               "tx_bit", m.bitMappedReport.bitMappedKeys)

kbapp_slpRptSend(m) ==
    SendReport([m EXCEPT !.slpRptChanged = FALSE],
               "tx_slp", <<m.slpRpt.sleepVal>>)

kbapp_funcLockRptSend(m) ==
    SendReport([m EXCEPT !.funcLockRptChanged = FALSE],
               "tx_funcLock", <<m.funcLockRpt.status>>)

SCROLL_REPORT_VOLUME_UP == 1
SCROLL_REPORT_VOLUME_DOWN == 2

kbapp_scrollRptSend(m) ==
    LET m1 == [m EXCEPT !.scrollRptChanged = FALSE]
    IN  IF IsLE(m1)
        THEN SendReport(
                 SendReport(m1, "tx_scroll",
                     << IF m1.scrollReport.motionAxis0 > 0
                        THEN SCROLL_REPORT_VOLUME_UP
                        ELSE SCROLL_REPORT_VOLUME_DOWN >>),
                 "tx_scroll", <<0>>)
        ELSE SendReport(m1, "tx_scroll", <<m1.scrollReport.motionAxis0>>)

kbapp_batRptSend(m) == SendReport(m, "tx_bat", <<m.batRpt.level>>)

kbapp_pinRptSend(m) ==
    SendReport([m EXCEPT !.pinRptChanged = FALSE],
               "tx_pin", <<m.pinReport.reportCode>>)

\* a variant that transmits during recovery too
kbapp_txModifiedKeyReports_NoRecoveryCheck(m) ==
    LET m1 == IF m.stdRptChanged THEN kbapp_stdRptSend(m) ELSE m
    IN  IF m1.kbapp_protocol # PROTOCOL_REPORT THEN m1
        ELSE IF m1.bitRptChanged THEN kbapp_bitRptSend(m1) ELSE m1

\* a variant that transmits the standard report alone
kbapp_txModifiedKeyReports_StdOnly(m) ==
    IF m.recoveryInProgress # 0 THEN m
    ELSE IF m.stdRptChanged THEN kbapp_stdRptSend(m) ELSE m

\* transmit all modified key reports unless recovering from an error;
\* only the standard report in boot mode
kbapp_txModifiedKeyReports(m) ==
    IF m.recoveryInProgress # 0 THEN m
    ELSE
      LET m1 == IF m.stdRptChanged THEN kbapp_stdRptSend(m) ELSE m
      IN  IF m1.kbapp_protocol # PROTOCOL_REPORT THEN m1
          ELSE
            LET m2 == IF m1.bitRptChanged THEN kbapp_bitRptSend(m1) ELSE m1
                m3 == IF m2.slpRptChanged THEN kbapp_slpRptSend(m2) ELSE m2
                m4 == IF m3.funcLockRptChanged
                      THEN kbapp_funcLockRptSend(m3) ELSE m3
            IN  IF m4.scrollRptChanged THEN kbapp_scrollRptSend(m4) ELSE m4

(***************************************************************************)
(* Clearing reports, flushing input                                        *)
(***************************************************************************)
kbapp_stdRptClear(m) ==
    [m EXCEPT !.modKeysInStdRpt = 0,
              !.keysInStdRpt = 0,
              !.stdRpt = [modifierKeys |-> 0,
                          keyCodes |-> [i \in 1..maxKeysInStdRpt |-> 0]]]

kbapp_bitRptClear(m) ==
    [m EXCEPT !.keysInBitRpt = 0,
              !.bitMappedReport =
                  [bitMappedKeys |-> [i \in 1..NumBitRptBytes |-> 0]]]

kbapp_slpRptClear(m) == [m EXCEPT !.slpRpt = [sleepVal |-> 0]]

kbapp_pinRptClear(m) == [m EXCEPT !.pinReport = [reportCode |-> 0]]

kbapp_scrollRptClear(m) ==
    [m EXCEPT !.scrollReport = [motionAxis0 |-> 0],
              !.scrollRptChanged = FALSE]

kbapp_clearAllReports(m) ==
    LET m1 == kbapp_scrollRptClear(kbapp_pinRptClear(kbapp_slpRptClear(
                  kbapp_bitRptClear(kbapp_stdRptClear(m)))))
    IN  [m1 EXCEPT !.bitRptChanged = FALSE,
                   !.slpRptChanged = FALSE,
                   !.stdRptChanged = FALSE,
                   !.pinRptChanged = FALSE,
                   !.scrollRptChanged = FALSE,
                   !.funcLockRptChanged = FALSE]

\* (variant: the flush leaves a recovery that is in progress running)
kbapp_flushUserInput_KeepRecovery(m) ==
    wiced_hidd_event_queue_flush(
        kbapp_clearAllReports([m EXCEPT !.scrollFractional = 0]))

kbapp_flushUserInput(m) ==
    wiced_hidd_event_queue_flush(
        kbapp_clearAllReports(
            [m EXCEPT !.scrollFractional = 0,
                      !.recoveryInProgress = 0,
                      !.rolloversInWindow = 0]))

(***************************************************************************)
(* Connect button                                                          *)
(***************************************************************************)
\* kbapp_connectButtonPressed: virtual cable unplug, then enter pairing
kbapp_connectButtonHandler(m, connectButtonPosition) ==
    IF connectButtonPosition = KEY_DOWN
    THEN Call(m, "wiced_hidd_enter_pairing", <<>>)
    ELSE m

(***************************************************************************)
(* Error response                                                          *)
(***************************************************************************)
\* a variant that sends the rollover report on every error
kbapp_stdErrResp_AlwaysRollover(m) ==
    LET m1 == kbapp_clearAllReports(Call(m, "kbapp_stdErrResp", <<>>))
        m2 == kbapp_stdRptRolloverSend(
                  [m1 EXCEPT !.funcLockInfo.kepPosition = "FUNC_LOCK_KEY_UP"])
    IN  [m2 EXCEPT !.recoveryInProgress = recoveryPollCount,
                   !.slpRptChanged = TRUE,
                   !.bitRptChanged = TRUE,
                   !.stdRptChanged = TRUE]

\* a variant that toggles the func-lock state when the toggle flag is set
kbapp_stdErrResp_ToggleIfFlagged(m) ==
    LET m1 == kbapp_clearAllReports(Call(m, "kbapp_stdErrResp", <<>>))
        m2 == [m1 EXCEPT
                 !.funcLockInfo.kepPosition = "FUNC_LOCK_KEY_UP",
                 !.funcLockInfo.state =
                     IF m1.funcLockInfo.toggleStateOnKeyUp THEN 1 - @ ELSE @]
        m3 == IF m2.recoveryInProgress = 0
              THEN kbapp_stdRptRolloverSend(m2) ELSE m2
    IN  [m3 EXCEPT !.recoveryInProgress = recoveryPollCount,
                   !.slpRptChanged = TRUE,
                   !.bitRptChanged = TRUE,
                   !.stdRptChanged = TRUE]

kbapp_stdErrResp(m) ==
    LET m1 == kbapp_clearAllReports(Call(m, "kbapp_stdErrResp", <<>>))
        m2 == [m1 EXCEPT !.funcLockInfo.kepPosition = "FUNC_LOCK_KEY_UP"]
        m3 == IF m2.recoveryInProgress = 0
              THEN kbapp_stdRptRolloverSend(m2) ELSE m2
        m4 == [m3 EXCEPT !.recoveryInProgress = recoveryPollCount,
                         !.slpRptChanged = TRUE,
                         !.bitRptChanged = TRUE,
                         !.stdRptChanged = TRUE]
    IN  kbapp_connectButtonHandler(m4, KEY_UP)

\* standard error response, then flush the event queue and reset the
\* keyscan hardware
kbapp_stdErrRespWithFwHwReset(m) ==
    Call(wiced_hidd_event_queue_flush(
             kbapp_stdErrResp(Call(m, "kbapp_stdErrRespWithFwHwReset", <<>>))),
         "wiced_hal_keyscan_reset", <<>>)

\* a variant that drops the ghost event and carries on
kbapp_procErrKeyscan_PopAndGo(m) ==
    wiced_hidd_event_queue_remove_current_element(
        Call(m, "kbapp_procErrKeyscan", <<>>))

kbapp_procErrKeyscan(m) ==
    kbapp_stdErrRespWithFwHwReset(Call(m, "kbapp_procErrKeyscan", <<>>))

\* (variant: the error response without the flush of the event queue)
kbapp_procErrEvtQueue_NoFlush(m) ==
    kbapp_stdErrResp(Call(m, "kbapp_procErrEvtQueue", <<>>))

kbapp_procErrEvtQueue(m) ==
    kbapp_stdErrRespWithFwHwReset(Call(m, "kbapp_procErrEvtQueue", <<>>))

kbapp_stdRptProcOverflow(m) ==
    kbapp_stdErrRespWithFwHwReset(Call(m, "kbapp_stdRptProcOverflow", <<>>))


(***************************************************************************)
(* Per-key-type handlers                                                   *)
(***************************************************************************)
\* a variant that transmits the report as soon as a key is added
kbapp_stdRptProcEvtKeyDown_EagerSend(m, upDownFlag, keyCode, translationCode) ==
    IF \E i \in 1..m.keysInStdRpt : m.stdRpt.keyCodes[i] = translationCode
    THEN m
    ELSE IF m.keysInStdRpt < maxKeysInStdRpt
         THEN kbapp_stdRptSend(
                  [m EXCEPT !.stdRpt.keyCodes[m.keysInStdRpt + 1] = translationCode,
                            !.keysInStdRpt = @ + 1])
         ELSE kbapp_stdRptProcOverflow(m)

\* a variant that does not look for the key in the report
kbapp_stdRptProcEvtKeyDown_NoDupCheck(m, upDownFlag, keyCode, translationCode) ==
    IF m.keysInStdRpt < maxKeysInStdRpt
    THEN [m EXCEPT !.stdRpt.keyCodes[m.keysInStdRpt + 1] = translationCode,
                   !.keysInStdRpt = @ + 1,
                   !.stdRptChanged = TRUE]
    ELSE kbapp_stdRptProcOverflow(m)

kbapp_stdRptProcEvtKeyDown(m, upDownFlag, keyCode, translationCode) ==
    IF \E i \in 1..m.keysInStdRpt : m.stdRpt.keyCodes[i] = translationCode
    THEN m
    ELSE IF m.keysInStdRpt < maxKeysInStdRpt
         THEN [m EXCEPT !.stdRpt.keyCodes[m.keysInStdRpt + 1] = translationCode,
                        !.keysInStdRpt = @ + 1,
                        !.stdRptChanged = TRUE]
         ELSE kbapp_stdRptProcOverflow(m)

\* the for loop of kbapp_stdRptProcEvtKeyUp from index i (0-based); it
\* does not stop at the first match
RECURSIVE StdRptKeyUpLoop(_, _, _)
StdRptKeyUpLoop(m, i, translationCode) ==
    IF i >= m.keysInStdRpt THEN m
    ELSE IF m.stdRpt.keyCodes[i + 1] = translationCode
         THEN LET n   == m.keysInStdRpt - 1
                  kc1 == [m.stdRpt.keyCodes EXCEPT ![i + 1] = m.stdRpt.keyCodes[n + 1]]
                  kc2 == [kc1 EXCEPT ![n + 1] = 0]
              IN  StdRptKeyUpLoop([m EXCEPT !.keysInStdRpt = n,
                                            !.stdRpt.keyCodes = kc2,
                                            !.stdRptChanged = TRUE],
                                  i + 1, translationCode)
         ELSE StdRptKeyUpLoop(m, i + 1, translationCode)

\* a variant that removes the last key of the report, whichever it is
kbapp_stdRptProcEvtKeyUp_PopLast(m, upDownFlag, keyCode, translationCode) ==
    IF m.keysInStdRpt = 0 THEN m
    ELSE [m EXCEPT !.stdRpt.keyCodes[m.keysInStdRpt] = 0,
                   !.keysInStdRpt = @ - 1,
                   !.stdRptChanged = TRUE]

\* a variant that moves the last key into the gap and leaves its slot as is
kbapp_stdRptProcEvtKeyUp_KeepLast(m, upDownFlag, keyCode, translationCode) ==
    IF \E i \in 1..m.keysInStdRpt : m.stdRpt.keyCodes[i] = translationCode
    THEN LET i == CHOOSE i \in 1..m.keysInStdRpt :
                      m.stdRpt.keyCodes[i] = translationCode
         IN  [m EXCEPT !.stdRpt.keyCodes[i] = m.stdRpt.keyCodes[m.keysInStdRpt],
                       !.keysInStdRpt = @ - 1,
                       !.stdRptChanged = TRUE]
    ELSE m

kbapp_stdRptProcEvtKeyUp(m, upDownFlag, keyCode, translationCode) ==
    StdRptKeyUpLoop(m, 0, translationCode)

kbapp_stdRptProcEvtKey(m, upDownFlag, keyCode, translationCode) ==
    LET m1 == Call(m, "kbapp_stdRptProcEvtKey",
                   <<upDownFlag, keyCode, translationCode>>)
    IN  IF upDownFlag = KEY_DOWN
        THEN kbapp_stdRptProcEvtKeyDown(m1, upDownFlag, keyCode, translationCode)
        ELSE kbapp_stdRptProcEvtKeyUp(m1, upDownFlag, keyCode, translationCode)

\* a variant that counts every modifier key-down
kbapp_stdRptProcEvtModKey_CountEveryDown(m, upDownFlag, keyCode, translationCode) ==
    LET m1 == Call(m, "kbapp_stdRptProcEvtModKey",
                   <<upDownFlag, keyCode, translationCode>>)
        isDown == BitAnd(m1.stdRpt.modifierKeys, translationCode) # 0
    IN  IF upDownFlag = KEY_DOWN
        THEN [m1 EXCEPT !.stdRpt.modifierKeys = BitOr(@, translationCode),
                        !.stdRptChanged = TRUE,
                        !.modKeysInStdRpt = @ + 1]
        ELSE IF isDown
             THEN [m1 EXCEPT !.stdRpt.modifierKeys = BitClear(@, translationCode),
                             !.stdRptChanged = TRUE,
                             !.modKeysInStdRpt = @ - 1]
             ELSE m1

kbapp_stdRptProcEvtModKey(m, upDownFlag, keyCode, translationCode) ==
    LET m1 == Call(m, "kbapp_stdRptProcEvtModKey",
                   <<upDownFlag, keyCode, translationCode>>)
        isDown == BitAnd(m1.stdRpt.modifierKeys, translationCode) # 0
    IN  IF upDownFlag = KEY_DOWN
        THEN IF ~isDown
             THEN [m1 EXCEPT !.stdRpt.modifierKeys = BitOr(@, translationCode),
                             !.stdRptChanged = TRUE,
                             !.modKeysInStdRpt = @ + 1]
             ELSE m1
        ELSE IF isDown
             THEN [m1 EXCEPT !.stdRpt.modifierKeys = BitClear(@, translationCode),
                             !.stdRptChanged = TRUE,
                             !.modKeysInStdRpt = @ - 1]
             ELSE m1

kbapp_slpRptProcEvtKey(m, upDownFlag, keyCode, slpBitMask) ==
    LET m1 == Call(m, "kbapp_slpRptProcEvtKey",
                   <<upDownFlag, keyCode, slpBitMask>>)
        isDown == BitAnd(m1.slpRpt.sleepVal, slpBitMask) # 0
    IN  IF upDownFlag = KEY_DOWN
        THEN IF ~isDown
             THEN [m1 EXCEPT !.slpRpt.sleepVal = BitOr(@, slpBitMask),
                             !.slpRptChanged = TRUE]
             ELSE m1
        ELSE IF isDown
             THEN [m1 EXCEPT !.slpRpt.sleepVal = BitClear(@, slpBitMask),
                             !.slpRptChanged = TRUE]
             ELSE m1

\* a variant that counts every key-down
kbapp_bitRptProcEvtKey_CountEveryDown(m, upDownFlag, keyCode, rowCol) ==
    LET m1 == Call(m, "kbapp_bitRptProcEvtKey", <<upDownFlag, keyCode, rowCol>>)
    IN  IF ~(rowCol < numBitMappedKeys) THEN m1
        ELSE
          LET row     == rowCol \div 8
              keyMask == Pow2(rowCol % 8)
              isDown  == BitAnd(m1.bitMappedReport.bitMappedKeys[row + 1], keyMask) # 0
          IN  IF upDownFlag = KEY_DOWN
              THEN [m1 EXCEPT !.bitMappedReport.bitMappedKeys[row + 1] =
                                   BitOr(@, keyMask),
                              !.keysInBitRpt = @ + 1,
                              !.bitRptChanged = TRUE]
              ELSE IF isDown
                   THEN [m1 EXCEPT !.bitMappedReport.bitMappedKeys[row + 1] =
                                        BitClear(@, keyMask),
                                   !.keysInBitRpt = @ - 1,
                                   !.bitRptChanged = TRUE]
                   ELSE m1

kbapp_bitRptProcEvtKey(m, upDownFlag, keyCode, rowCol) ==
    LET m1 == Call(m, "kbapp_bitRptProcEvtKey", <<upDownFlag, keyCode, rowCol>>)
    IN  IF ~(rowCol < numBitMappedKeys) THEN m1
        ELSE
          LET row     == rowCol \div 8
              col     == rowCol % 8
              keyMask == Pow2(col)
              isDown  == BitAnd(m1.bitMappedReport.bitMappedKeys[row + 1], keyMask) # 0
          IN  IF upDownFlag = KEY_DOWN
              THEN IF ~isDown
                   THEN [m1 EXCEPT !.bitMappedReport.bitMappedKeys[row + 1] =
                                        BitOr(@, keyMask),
                                   !.keysInBitRpt = @ + 1,
                                   !.bitRptChanged = TRUE]
                   ELSE m1
              ELSE IF isDown
                   THEN [m1 EXCEPT !.bitMappedReport.bitMappedKeys[row + 1] =
                                        BitClear(@, keyMask),
                                   !.keysInBitRpt = @ - 1,
                                   !.bitRptChanged = TRUE]
                   ELSE m1

kbapp_funcLockToggle(m) ==
    LET newState == IF m.funcLockInfo.state = FUNC_LOCK_STATE_OFF
                    THEN FUNC_LOCK_STATE_ON ELSE FUNC_LOCK_STATE_OFF
    IN  Call([m EXCEPT !.kbapp_funcLock_state = newState,
                       !.funcLockInfo.state = newState,
                       !.funcLockRpt.status = BitOr(newState, FUNC_LOCK_EVENT_FLAG),
                       !.funcLockRptChanged = TRUE],
             "kbapp_funcLockToggle", <<newState>>)

\* a variant that toggles on every accepted key-up
kbapp_funcLockProcEvtKey_ToggleOnUp(m, upDownFlag, keyCode, translationCode) ==
    LET m1 == Call(m, "kbapp_funcLockProcEvtKey",
                   <<upDownFlag, keyCode, translationCode>>)
    IN  IF ~(m1.recoveryInProgress = 0 /\ m1.kbapp_protocol = PROTOCOL_REPORT)
        THEN m1
        ELSE IF upDownFlag = KEY_DOWN
             THEN IF m1.funcLockInfo.kepPosition = "FUNC_LOCK_KEY_UP"
                  THEN LET m2 == kbapp_funcLockToggle(
                                   [m1 EXCEPT !.funcLockInfo.kepPosition =
                                                  "FUNC_LOCK_KEY_DOWN"])
                       IN  [m2 EXCEPT !.funcLockInfo.toggleStateOnKeyUp = FALSE]
                  ELSE m1
             ELSE IF m1.funcLockInfo.kepPosition = "FUNC_LOCK_KEY_DOWN"
                  THEN kbapp_funcLockToggle(
                           [m1 EXCEPT !.funcLockInfo.kepPosition =
                                          "FUNC_LOCK_KEY_UP"])
                  ELSE m1

\* a variant that handles the func-lock key in boot protocol too
kbapp_funcLockProcEvtKey_InBoot(m, upDownFlag, keyCode, translationCode) ==
    LET m1 == Call(m, "kbapp_funcLockProcEvtKey",
                   <<upDownFlag, keyCode, translationCode>>)
    IN  IF m1.recoveryInProgress # 0
        THEN m1
        ELSE IF upDownFlag = KEY_DOWN
             THEN IF m1.funcLockInfo.kepPosition = "FUNC_LOCK_KEY_UP"
                  THEN LET m2 == kbapp_funcLockToggle(
                                   [m1 EXCEPT !.funcLockInfo.kepPosition =
                                                  "FUNC_LOCK_KEY_DOWN"])
                       IN  [m2 EXCEPT !.funcLockInfo.toggleStateOnKeyUp = FALSE]
                  ELSE m1
             ELSE IF m1.funcLockInfo.kepPosition = "FUNC_LOCK_KEY_DOWN"
                  THEN LET m2 == [m1 EXCEPT !.funcLockInfo.kepPosition =
                                                "FUNC_LOCK_KEY_UP"]
                       IN  IF m2.funcLockInfo.toggleStateOnKeyUp
                           THEN kbapp_funcLockToggle(m2) ELSE m2
                  ELSE m1

kbapp_funcLockProcEvtKey(m, upDownFlag, keyCode, translationCode) ==
    LET m1 == Call(m, "kbapp_funcLockProcEvtKey",
                   <<upDownFlag, keyCode, translationCode>>)
    IN  IF ~(m1.recoveryInProgress = 0 /\ m1.kbapp_protocol = PROTOCOL_REPORT)
        THEN m1
        ELSE IF upDownFlag = KEY_DOWN
             THEN IF m1.funcLockInfo.kepPosition = "FUNC_LOCK_KEY_UP"
                  THEN LET m2 == kbapp_funcLockToggle(
                                   [m1 EXCEPT !.funcLockInfo.kepPosition =
                                                  "FUNC_LOCK_KEY_DOWN"])
                       IN  [m2 EXCEPT !.funcLockInfo.toggleStateOnKeyUp = FALSE]
                  ELSE m1
             ELSE IF m1.funcLockInfo.kepPosition = "FUNC_LOCK_KEY_DOWN"
                  THEN LET m2 == [m1 EXCEPT !.funcLockInfo.kepPosition =
                                                "FUNC_LOCK_KEY_UP"]
                       IN  IF m2.funcLockInfo.toggleStateOnKeyUp
                           THEN kbapp_funcLockToggle(m2) ELSE m2
                  ELSE m1

\* a variant that routes a key-down by the lock state alone
kbapp_funcLockProcEvtDepKey_ByLockState(m, upDownFlag, keyCode, funcLockDepKeyTableIndex) ==
    LET m1  == Call(m, "kbapp_funcLockProcEvtDepKey",
                    <<upDownFlag, keyCode, funcLockDepKeyTableIndex>>)
        tab == kbFuncLockDepKeyTransTab(funcLockDepKeyTableIndex)
    IN  IF upDownFlag = KEY_DOWN
        THEN LET m2 == IF m1.funcLockInfo.state = FUNC_LOCK_STATE_ON
                       THEN kbapp_stdRptProcEvtKey(m1, upDownFlag, keyCode,
                                                   tab.stdRptCode)
                       ELSE kbapp_bitRptProcEvtKey(m1, upDownFlag, keyCode,
                                                   tab.bitRptCode)
             IN  [m2 EXCEPT !.funcLockInfo.toggleStateOnKeyUp = TRUE]
        ELSE kbapp_bitRptProcEvtKey(
                 kbapp_stdRptProcEvtKey(m1, upDownFlag, keyCode, tab.stdRptCode),
                 upDownFlag, keyCode, tab.bitRptCode)

\* a variant that routes a key-up the way it routes a key-down
kbapp_funcLockProcEvtDepKey_UpLikeDown(m, upDownFlag, keyCode, funcLockDepKeyTableIndex) ==
    LET m1  == Call(m, "kbapp_funcLockProcEvtDepKey",
                    <<upDownFlag, keyCode, funcLockDepKeyTableIndex>>)
        tab == kbFuncLockDepKeyTransTab(funcLockDepKeyTableIndex)
        m2  == IF m1.funcLockInfo.state = FUNC_LOCK_STATE_ON
                  \/ m1.kbapp_protocol = PROTOCOL_BOOT
               THEN kbapp_stdRptProcEvtKey(m1, upDownFlag, keyCode, tab.stdRptCode)
               ELSE kbapp_bitRptProcEvtKey(m1, upDownFlag, keyCode, tab.bitRptCode)
    IN  IF upDownFlag = KEY_DOWN
        THEN [m2 EXCEPT !.funcLockInfo.toggleStateOnKeyUp = TRUE]
        ELSE m2

kbapp_funcLockProcEvtDepKey(m, upDownFlag, keyCode, funcLockDepKeyTableIndex) ==
    LET m1  == Call(m, "kbapp_funcLockProcEvtDepKey",
                    <<upDownFlag, keyCode, funcLockDepKeyTableIndex>>)
        tab == kbFuncLockDepKeyTransTab(funcLockDepKeyTableIndex)
    IN  IF upDownFlag = KEY_DOWN
        THEN LET m2 == IF m1.funcLockInfo.state = FUNC_LOCK_STATE_ON
                          \/ m1.kbapp_protocol = PROTOCOL_BOOT
                       THEN kbapp_stdRptProcEvtKey(m1, upDownFlag, keyCode,
                                                   tab.stdRptCode)
                       ELSE kbapp_bitRptProcEvtKey(m1, upDownFlag, keyCode,
                                                   tab.bitRptCode)
             IN  [m2 EXCEPT !.funcLockInfo.toggleStateOnKeyUp = TRUE]
        ELSE kbapp_bitRptProcEvtKey(
                 kbapp_stdRptProcEvtKey(m1, upDownFlag, keyCode, tab.stdRptCode),
                 upDownFlag, keyCode, tab.bitRptCode)

kbapp_procEvtUserDefinedKey(m, upDownFlag, keyCode, translationCode) == m

kbapp_procEvtUserDefined(m) == m

(***************************************************************************)
(* Key-type dispatcher                                                     *)
(***************************************************************************)
\* the switch on the key type in kbapp_procEvtKey
\* a read of kbKeyConfig[keyCode]: the index is noted
ReadKeyConfig(m, keyCode) ==
    [m EXCEPT !.keyConfigReads = Append(@, keyCode)]

DispatchKey(m0, upDownFlag, keyCode) ==
    LET m                  == ReadKeyConfig(m0, keyCode)
        keyType            == kbKeyConfig(keyCode).type
        keyTranslationCode == kbKeyConfig(keyCode).translationValue
    IN  CASE keyType = "KEY_TYPE_STD" ->
               kbapp_stdRptProcEvtKey(m, upDownFlag, keyCode, keyTranslationCode)
          [] keyType = "KEY_TYPE_MODIFIER" ->
               kbapp_stdRptProcEvtModKey(m, upDownFlag, keyCode, keyTranslationCode)
          [] keyType = "KEY_TYPE_BIT_MAPPED" ->
               kbapp_bitRptProcEvtKey(m, upDownFlag, keyCode, keyTranslationCode)
          [] keyType = "KEY_TYPE_SLEEP" ->
               kbapp_slpRptProcEvtKey(m, upDownFlag, keyCode, keyTranslationCode)
          [] keyType = "KEY_TYPE_FUNC_LOCK" ->
               kbapp_funcLockProcEvtKey(m, upDownFlag, keyCode, keyTranslationCode)
          [] keyType = "KEY_TYPE_FUNC_LOCK_DEP" ->
               kbapp_funcLockProcEvtDepKey(m, upDownFlag, keyCode, keyTranslationCode)
          [] keyType = "KEY_TYPE_NONE" -> m
          [] OTHER ->
               kbapp_procEvtUserDefinedKey(m, upDownFlag, keyCode, keyTranslationCode)

\* the do-while loop of kbapp_procEvtKey
RECURSIVE ProcEvtKeyLoop(_)
ProcEvtKeyLoop(m) ==
    IF m.eventQueue = <<>>
    THEN kbapp_procErrEvtQueue(Call(m, "queue_empty", <<>>))
    ELSE
      LET keyEvent == Head(m.eventQueue)
          keyCode  == keyEvent.keyCode
      IN  IF keyEvent.eventType # "HID_EVENT_KEY_STATE_CHANGE"
          THEN kbapp_procErrEvtQueue(m)
          ELSE IF keyCode < kbKeyConfig_size
               THEN LET m1 == wiced_hidd_event_queue_remove_current_element(
                                  DispatchKey(m, keyEvent.upDownFlag, keyCode))
                    IN  IF keyCode < KB_MAX_KEYS THEN ProcEvtKeyLoop(m1) ELSE m1
               ELSE IF keyCode = END_OF_SCAN_CYCLE
                    THEN LET m1 == wiced_hidd_event_queue_remove_current_element(
                                       Call(kbapp_txModifiedKeyReports(m),
                                            "wiced_hidd_activity_detected", <<>>))
                         IN  IF keyCode < KB_MAX_KEYS THEN ProcEvtKeyLoop(m1) ELSE m1
                    ELSE kbapp_procErrKeyscan(m)

kbapp_procEvtKey(m) ==
    Call(ProcEvtKeyLoop(Call(m, "kbapp_procEvtKey", <<>>)),
         "return_kbapp_procEvtKey", <<>>)

(***************************************************************************)
(* Scroll                                                                  *)
(***************************************************************************)
\* the while loop of kbapp_procEvtScroll
RECURSIVE ProcEvtScrollLoop(_)
ProcEvtScrollLoop(m) ==
    IF m.eventQueue # <<>>
       /\ Head(m.eventQueue).eventType = "HID_EVENT_MOTION_AXIS_0"
    THEN LET m1 == wiced_hidd_event_queue_remove_current_element(
                       [m EXCEPT !.scrollReport.motionAxis0 =
                                     @ + Head(m.eventQueue).motion])
         IN  IF ~m.kbAppConfig.scrollCombining THEN m1
             ELSE ProcEvtScrollLoop(m1)
    ELSE m

kbapp_procEvtScroll(m) ==
    LET m1 == ProcEvtScrollLoop(
                  [Call(m, "kbapp_procEvtScroll", <<>>)
                      EXCEPT !.scrollReport.motionAxis0 = 0])
        m2 == IF m1.scrollReport.motionAxis0 # 0
              THEN [m1 EXCEPT !.scrollRptChanged = TRUE] ELSE m1
    IN  kbapp_txModifiedKeyReports(m2)


(***************************************************************************)
(* Polling the hardware                                                    *)
(***************************************************************************)
Int16(x) == ((x + 32768) % 65536) - 32768

\* the while loop of kbapp_pollActivityKey over the events the keyscan
\* driver holds; suppress is suppressEndScanCycleAfterConnectButton
RECURSIVE PollActivityKeyLoop(_, _, _)
PollActivityKeyLoop(m, events, suppress) ==
    IF events = <<>> THEN m
    ELSE
      LET e == Head(events)
      IN  IF e.keyCode = m.kbAppConfig.connectButtonScanIndex
          THEN PollActivityKeyLoop(
                   IF m.recoveryInProgress = 0
                   THEN kbapp_connectButtonHandler(m, e.upDownFlag)
                   ELSE m,
                   Tail(events), suppress)
          ELSE IF e.keyCode = END_OF_SCAN_CYCLE
               THEN PollActivityKeyLoop(
                        IF ~suppress
                        THEN wiced_hidd_event_queue_add_event_with_overflow(m, e)
                        ELSE m,
                        Tail(events), TRUE)
               ELSE PollActivityKeyLoop(
                        wiced_hidd_event_queue_add_event_with_overflow(m, e),
                        Tail(events), FALSE)

kbapp_pollActivityKey(m) == PollActivityKeyLoop(m, m.keyscanEvents, TRUE)

\* (variant: shifts the signed value itself instead of its magnitude)
kbapp_scaleValue_ShiftSigned(val, scaleFactor) ==
    LET result == val \div Pow2(scaleFactor)
    IN  IF result # 0
        THEN [val |-> Int16(val - result * Pow2(scaleFactor)), result |-> result]
        ELSE [val |-> val, result |-> result]

\* returns [val, result]: the remainder left in *val and the quotient
kbapp_scaleValue(val, scaleFactor) ==
    LET abs    == IF val < 0 THEN Int16(-val) ELSE val
        shr    == abs \div Pow2(scaleFactor)
        result == IF shr # 0 /\ val < 0 THEN Int16(-shr) ELSE shr
    IN  IF shr # 0
        THEN [val |-> Int16(val - result * Pow2(scaleFactor)), result |-> result]
        ELSE [val |-> val, result |-> result]

kbapp_pollActivityScroll(m) ==
    LET count == m.scrollCount
    IN  IF count # 0
        THEN
          LET scrollCurrent == IF m.kbAppConfig.negateScroll
                               THEN Int16(-count) ELSE count
          IN  IF m.kbAppConfig.scrollScale # 0
              THEN LET sv == kbapp_scaleValue(
                                 Int16(m.scrollFractional + scrollCurrent),
                                 m.kbAppConfig.scrollScale)
                   IN  wiced_hidd_event_queue_add_event_with_overflow(
                           [m EXCEPT !.scrollFractional = sv.val,
                                     !.pollsSinceScroll = 0],
                           MotionEvent(sv.result))
              ELSE wiced_hidd_event_queue_add_event_with_overflow(
                       m, MotionEvent(scrollCurrent))
        ELSE IF m.kbAppConfig.pollsToKeepFracScrollData # 0
             THEN IF m.pollsSinceScroll + 1 >= m.kbAppConfig.pollsToKeepFracScrollData
                  THEN [m EXCEPT !.scrollFractional = 0, !.pollsSinceScroll = 0]
                  ELSE [m EXCEPT !.pollsSinceScroll = @ + 1]
             ELSE m

(***************************************************************************)
(* Report generation                                                       *)
(***************************************************************************)
\* (variant: repeats the report during recovery too)
kbapp_idleRateProc_InRecovery(m0) ==
    LET m == Call(m0, "kbapp_idleRateProc", m0.stdRptSent)
    IN  IF m.idleRate # 0
           /\ (m.keysInStdRpt # 0 \/ m.modKeysInStdRpt # 0)
           /\ Len(m.eventQueue) = 0
           /\ wiced_bt_buffer_poolutilization(m) < PoolThreshold
           /\ m.idleDue
        THEN kbapp_stdRptSend(m)
        ELSE m

\* m.idleDue: wiced_hidd_get_bt_clocks_since(stdRptTxInstant) is at least
\* idleRateInBtClocks; the log entry records the report sent last
kbapp_idleRateProc(m0) ==
    LET m == Call(m0, "kbapp_idleRateProc", m0.stdRptSent)
    IN  IF m.idleRate # 0
           /\ m.recoveryInProgress = 0
           /\ (m.keysInStdRpt # 0 \/ m.modKeysInStdRpt # 0)
           /\ Len(m.eventQueue) = 0
           /\ wiced_bt_buffer_poolutilization(m) < PoolThreshold
           /\ m.idleDue
        THEN kbapp_stdRptSend(m)
        ELSE m

\* the while loop of kbapp_generateAndTxReports; every evaluation of its
\* condition asks the buffer pool once
\* the body of the while loop: the switch on the type of the current event
DrainStep(m) ==
    LET curEvent == Head(m.eventQueue)
    IN  CASE curEvent.eventType = "HID_EVENT_KEY_STATE_CHANGE" ->
               kbapp_procEvtKey(m)
          [] curEvent.eventType = "HID_EVENT_MOTION_AXIS_0" ->
               kbapp_procEvtScroll(m)
          [] curEvent.eventType = "HID_EVENT_EVENT_FIFO_OVERFLOW" ->
               kbapp_procErrEvtQueue(m)
          [] OTHER -> kbapp_procEvtUserDefined(m)

RECURSIVE DrainLoop(_)
DrainLoop(m) ==
    IF wiced_bt_buffer_poolutilization(m) < PoolThreshold /\ m.eventQueue # <<>>
    THEN DrainLoop(DrainStep([m EXCEPT !.poolRoom = @ - 1]))
    ELSE IF m.poolRoom > 0 THEN [m EXCEPT !.poolRoom = @ - 1] ELSE m

\* the events of a queue as <<keyCode, upDownFlag>> (key events),
\* <<motion>> (scroll events) or <<>> (overflow events)
QueueData(q) ==
    [i \in 1..Len(q) |->
        CASE q[i].eventType = "HID_EVENT_KEY_STATE_CHANGE" ->
               <<q[i].keyCode, q[i].upDownFlag>>
          [] q[i].eventType = "HID_EVENT_MOTION_AXIS_0" -> <<q[i].motion>>
          [] OTHER -> <<>>]

\* (variant: events are dispatched whatever the buffer utilization is)
kbapp_generateAndTxReports_NoBackpressure(m0) ==
    LET m == Call(m0, "kbapp_generateAndTxReports", QueueData(m0.eventQueue))
    IN
    IF m.pinCodeEntryInProgress # PIN_ENTRY_MODE_NONE
    THEN IF m.pinRptChanged THEN kbapp_pinRptSend(m) ELSE m
    ELSE
      LET m1 == IF m.recoveryInProgress # 0
                THEN LET d == [m EXCEPT !.recoveryInProgress = @ - 1]
                     IN  IF d.recoveryInProgress = 0
                         THEN kbapp_txModifiedKeyReports(
                                  [d EXCEPT !.rolloversInWindow = 0])
                         ELSE d
                ELSE m
      IN  kbapp_idleRateProc(DrainLoop([m1 EXCEPT !.poolRoom = maxEventNum + 2]))

\* (variant: the recovery count is decremented only while the pool has room)
kbapp_generateAndTxReports_DecrementWithRoom(m0) ==
    LET m == Call(m0, "kbapp_generateAndTxReports", QueueData(m0.eventQueue))
    IN
    IF m.pinCodeEntryInProgress # PIN_ENTRY_MODE_NONE
    THEN IF m.pinRptChanged THEN kbapp_pinRptSend(m) ELSE m
    ELSE
      LET m1 == IF m.recoveryInProgress # 0
                   /\ wiced_bt_buffer_poolutilization(m) < PoolThreshold
                THEN LET d == [m EXCEPT !.recoveryInProgress = @ - 1]
                     IN  IF d.recoveryInProgress = 0
                         THEN kbapp_txModifiedKeyReports(
                                  [d EXCEPT !.rolloversInWindow = 0])
                         ELSE d
                ELSE m
      IN  kbapp_idleRateProc(DrainLoop(m1))

kbapp_generateAndTxReports(m0) ==
    LET m == Call(m0, "kbapp_generateAndTxReports", QueueData(m0.eventQueue))
    IN
    IF m.pinCodeEntryInProgress # PIN_ENTRY_MODE_NONE
    THEN IF m.pinRptChanged THEN kbapp_pinRptSend(m) ELSE m
    ELSE
      LET m1 == IF m.recoveryInProgress # 0
                THEN LET d == [m EXCEPT !.recoveryInProgress = @ - 1]
                     IN  IF d.recoveryInProgress = 0
                         THEN kbapp_txModifiedKeyReports(
                                  [d EXCEPT !.rolloversInWindow = 0])
                         ELSE d
                ELSE m
      IN  kbapp_idleRateProc(DrainLoop(m1))

(***************************************************************************)
(* Pin and pass code entry                                                 *)
(***************************************************************************)
\* kbKeyConfig[keyCode] as kbapp_handlePinEntry reads it: without a check
\* of keyCode against kbKeyConfig_size; a read past the table yields m.oob
kbKeyConfigUnchecked(m, keyCode) ==
    IF keyCode < kbKeyConfig_size THEN kbKeyConfig(keyCode) ELSE m.oob

kbapp_pinRptUpdate(m, pinEntryCode) ==
    [m EXCEPT !.pinReport.reportCode = pinEntryCode, !.pinRptChanged = TRUE]

\* pinCodeEventTransTab[row][keyEntry]
pinCodeEventTransTab(row, keyEntry) ==
    IF row = 0
    THEN << PIN_ENTRY_EVENT_INVALID, PIN_ENTRY_EVENT_CHAR,
            PIN_ENTRY_EVENT_BACKSPACE, PIN_ENTRY_EVENT_RESTART,
            PIN_ENTRY_EVENT_INVALID >>[keyEntry + 1]
    ELSE << PASS_KEY_ENTRY_EVENT_START, PASS_KEY_ENTRY_EVENT_CHAR,
            PASS_KEY_ENTRY_EVENT_BACKSPACE, PASS_KEY_ENTRY_EVENT_RESTART,
            PASS_KEY_ENTRY_EVENT_STOP >>[keyEntry + 1]

kbapp_pinEntryEvent(m, keyEntry) ==
    IF m.pinCodeEntryInProgress # PIN_ENTRY_MODE_NONE /\ keyEntry < KEY_ENTRY_EVENT_MAX
    THEN LET newCode == pinCodeEventTransTab(m.pinCodeEntryInProgress % 2, keyEntry)
         IN  CASE m.pinCodeEntryInProgress = LEGACY_PIN_ENTRY_IN_PROGRESS ->
                    IF newCode # PIN_ENTRY_EVENT_INVALID
                    THEN kbapp_pinRptUpdate(m, newCode) ELSE m
               [] m.pinCodeEntryInProgress = PASS_KEY_ENTRY_IN_PROGRESS ->
                    Call(m, "bthidlink_passCodeKeyPressReport", <<newCode>>)
               [] OTHER -> m
    ELSE m

\* the digit a usage code stands for, or 255
NumericKeyAsciiCode(usbUsageCode) ==
    IF usbUsageCode = USB_USAGE_0 \/ usbUsageCode = USB_USAGE_KP_0 THEN 0
    ELSE IF usbUsageCode >= USB_USAGE_1 /\ usbUsageCode <= USB_USAGE_9
         THEN usbUsageCode - USB_USAGE_1 + 1
         ELSE IF usbUsageCode >= USB_USAGE_KP_1 /\ usbUsageCode <= USB_USAGE_KP_9
              THEN usbUsageCode - USB_USAGE_KP_1 + 1
              ELSE 255

\* (variant: a digit is stored without looking at the room left)
PinEntryStdKeyDown_NoRoomCheck(m, usbUsageCode) ==
    CASE usbUsageCode \in {USB_USAGE_BACKSPACE, USB_USAGE_DELETE} ->
           IF m.pinCodeSize # 0
           THEN kbapp_pinEntryEvent([m EXCEPT !.pinCodeSize = @ - 1],
                                    KEY_ENTRY_EVENT_BACKSPACE)
           ELSE m
      [] usbUsageCode = USB_USAGE_ESCAPE ->
           kbapp_pinEntryEvent([m EXCEPT !.pinCodeSize = 0], KEY_ENTRY_EVENT_RESTART)
      [] usbUsageCode \in {USB_USAGE_ENTER, USB_USAGE_KP_ENTER} ->
           [m EXCEPT !.enterKeyPressed = usbUsageCode]
      [] OTHER ->
           LET digit == NumericKeyAsciiCode(usbUsageCode)
           IN  IF digit # 255
               THEN kbapp_pinEntryEvent(
                        [m EXCEPT !.pinCodeBuffer[m.pinCodeSize + 1] = digit + ASCII_0,
                                  !.pinCodeSize = @ + 1],
                        KEY_ENTRY_EVENT_CHAR)
               ELSE m

\* a key-down of a standard key during pin entry
PinEntryStdKeyDown(m, usbUsageCode) ==
    CASE usbUsageCode \in {USB_USAGE_BACKSPACE, USB_USAGE_DELETE} ->
           IF m.pinCodeSize # 0
           THEN kbapp_pinEntryEvent([m EXCEPT !.pinCodeSize = @ - 1],
                                    KEY_ENTRY_EVENT_BACKSPACE)
           ELSE m
      [] usbUsageCode = USB_USAGE_ESCAPE ->
           kbapp_pinEntryEvent([m EXCEPT !.pinCodeSize = 0], KEY_ENTRY_EVENT_RESTART)
      [] usbUsageCode \in {USB_USAGE_ENTER, USB_USAGE_KP_ENTER} ->
           [m EXCEPT !.enterKeyPressed = usbUsageCode]
      [] OTHER ->
           LET digit == NumericKeyAsciiCode(usbUsageCode)
           IN  IF digit # 255 /\ m.pinCodeSize < m.maxPinCodeSize
               THEN kbapp_pinEntryEvent(
                        [m EXCEPT !.pinCodeBuffer[m.pinCodeSize + 1] = digit + ASCII_0,
                                  !.pinCodeSize = @ + 1],
                        KEY_ENTRY_EVENT_CHAR)
               ELSE m

\* the pin code handed to the transport: the first pinCodeSize bytes
PinCode(m) == SubSeq(m.pinCodeBuffer, 1, m.pinCodeSize)

\* the while loop of kbapp_handlePinEntry
RECURSIVE HandlePinEntryLoop(_)
HandlePinEntryLoop(m0) ==
    IF m0.eventQueue = <<>> THEN m0
    ELSE
      LET curEvent == Head(m0.eventQueue)
          keyCode  == curEvent.keyCode
          cfg      == kbKeyConfigUnchecked(m0, keyCode)
          \* a key-down before Enter reads the key type, any key event
          \* after Enter the translation value
          m        == IF /\ curEvent.eventType = "HID_EVENT_KEY_STATE_CHANGE"
                         /\ \/ curEvent.upDownFlag = KEY_DOWN
                            \/ m0.enterKeyPressed # 0
                      THEN ReadKeyConfig(m0, keyCode) ELSE m0
      IN  IF curEvent.eventType # "HID_EVENT_KEY_STATE_CHANGE"
          THEN HandlePinEntryLoop(wiced_hidd_event_queue_remove_current_element(m))
          ELSE IF curEvent.upDownFlag = KEY_DOWN /\ m.enterKeyPressed = 0
               THEN HandlePinEntryLoop(
                        wiced_hidd_event_queue_remove_current_element(
                            IF cfg.type = "KEY_TYPE_STD"
                            THEN PinEntryStdKeyDown(m, cfg.translationValue)
                            ELSE m))
               ELSE IF m.enterKeyPressed # 0
                       /\ cfg.translationValue = m.enterKeyPressed
                    THEN LET m1 == IF m.pinCodeEntryInProgress =
                                          LEGACY_PIN_ENTRY_IN_PROGRESS
                                   THEN Call(m, "bthidlink_pinCode", PinCode(m))
                                   ELSE Call(kbapp_pinEntryEvent(m, KEY_ENTRY_EVENT_STOP),
                                             "bthidlink_passCode", PinCode(m))
                         IN  kbapp_flushUserInput(
                                 [m1 EXCEPT !.pinCodeEntryInProgress =
                                                PIN_ENTRY_MODE_NONE])
                    ELSE HandlePinEntryLoop(
                             wiced_hidd_event_queue_remove_current_element(m))

kbapp_handlePinEntry(m) == HandlePinEntryLoop(m)

\* (variant: pin code entry starts without flushing the user input)
kbapp_enterPinCodeEntryMode_NoFlush(m) ==
    IF m.pinCodeEntryInProgress = PIN_ENTRY_MODE_NONE
    THEN [m EXCEPT !.enterKeyPressed = 0,
                   !.pinCodeSize = 0,
                   !.maxPinCodeSize = MAX_PIN_SIZE,
                   !.pinCodeBuffer = [i \in 1..MAX_PASS_SIZE |->
                                         IF i <= MAX_PIN_SIZE THEN 0 ELSE @[i]],
                   !.pinCodeEntryInProgress = LEGACY_PIN_ENTRY_IN_PROGRESS]
    ELSE Call(m, "wiced_hidd_disconnect", <<>>)

kbapp_enterPinCodeEntryMode(m) ==
    IF m.pinCodeEntryInProgress = PIN_ENTRY_MODE_NONE
    THEN [kbapp_flushUserInput([m EXCEPT !.enterKeyPressed = 0])
             EXCEPT !.pinCodeSize = 0,
                    !.maxPinCodeSize = MAX_PIN_SIZE,
                    \* memset(pinCodeBuffer, 0, MAX_PIN_SIZE)
                    !.pinCodeBuffer = [i \in 1..MAX_PASS_SIZE |->
                                          IF i <= MAX_PIN_SIZE THEN 0 ELSE @[i]],
                    !.pinCodeEntryInProgress = LEGACY_PIN_ENTRY_IN_PROGRESS]
    ELSE Call(m, "wiced_hidd_disconnect", <<>>)

\* (variant: a request made while an entry is pending starts it afresh)
kbapp_enterPassCodeEntryMode_Restart(m) ==
    kbapp_pinEntryEvent(
        [kbapp_flushUserInput([m EXCEPT !.enterKeyPressed = 0])
            EXCEPT !.pinCodeSize = 0,
                   !.maxPinCodeSize = MAX_PASS_SIZE,
                   !.pinCodeBuffer = [i \in 1..MAX_PASS_SIZE |-> 0],
                   !.pinCodeEntryInProgress = PASS_KEY_ENTRY_IN_PROGRESS],
        KEY_ENTRY_EVENT_START)

kbapp_enterPassCodeEntryMode(m) ==
    IF m.pinCodeEntryInProgress = PIN_ENTRY_MODE_NONE
    THEN kbapp_pinEntryEvent(
             [kbapp_flushUserInput([m EXCEPT !.enterKeyPressed = 0])
                 EXCEPT !.pinCodeSize = 0,
                        !.maxPinCodeSize = MAX_PASS_SIZE,
                        !.pinCodeBuffer = [i \in 1..MAX_PASS_SIZE |-> 0],
                        !.pinCodeEntryInProgress = PASS_KEY_ENTRY_IN_PROGRESS],
             KEY_ENTRY_EVENT_START)
    ELSE Call(m, "wiced_hidd_disconnect", <<>>)

\* (variant: leaving pin entry flushes the user input)
kbapp_exitPinAndPassCodeEntryMode_Flush(m) ==
    kbapp_flushUserInput(
        [m EXCEPT !.pinCodeEntryInProgress = PIN_ENTRY_MODE_NONE])

kbapp_exitPinAndPassCodeEntryMode(m) ==
    [m EXCEPT !.pinCodeEntryInProgress = PIN_ENTRY_MODE_NONE]

(***************************************************************************)
(* The poll                                                                *)
(***************************************************************************)
\* returns [m, status]: status is TRUE for reportable activity
kbapp_pollActivityUser(m) ==
    LET m1 == kbapp_pollActivityScroll(kbapp_pollActivityKey(m))
    IN  IF m1.pinCodeEntryInProgress # PIN_ENTRY_MODE_NONE
        THEN [m |-> kbapp_handlePinEntry(m1), status |-> TRUE]
        ELSE [m |-> m1,
              status |-> Len(m1.eventQueue) # 0 \/ m1.modKeysInStdRpt # 0
                         \/ m1.keysInStdRpt # 0 \/ m1.keysInBitRpt # 0
                         \/ m1.slpRpt.sleepVal # 0]

\* (variant: reports are generated over a link that is not encrypted)
kbapp_pollReportUserActivity_NoSecurityCheck(m) ==
    LET r  == kbapp_pollActivityUser(m)
        m1 == IF r.status /\ ~r.m.link.connected
              THEN Call(r.m, "wiced_hidd_link_connect", <<>>) ELSE r.m
    IN  IF m1.link.connected
        THEN Call(kbapp_generateAndTxReports(m1),
                  "wiced_hal_batmon_poll_monitor", <<>>)
        ELSE m1

kbapp_pollReportUserActivity(m) ==
    LET r  == kbapp_pollActivityUser(m)
        m1 == IF r.status /\ ~r.m.link.connected
              THEN Call(r.m, "wiced_hidd_link_connect", <<>>) ELSE r.m
    IN  IF m1.link.connected
        THEN LET m2 == IF ~m1.kbAppConfig.securityRequired \/ m1.link.encrypted
                       THEN kbapp_generateAndTxReports(m1) ELSE m1
             IN  Call(m2, "wiced_hal_batmon_poll_monitor", <<>>)
        ELSE m1

(***************************************************************************)
(* Other entry points                                                      *)
(***************************************************************************)
kbapp_setProtocol(m, newProtocol) ==
    LET m1 == IF m.kbapp_protocol # newProtocol /\ newProtocol = PROTOCOL_REPORT
              THEN [kbapp_scrollRptClear(kbapp_slpRptClear(kbapp_bitRptClear(m)))
                       EXCEPT !.funcLockInfo.kepPosition = "FUNC_LOCK_KEY_UP"]
              ELSE m
    IN  [m1 EXCEPT !.kbapp_protocol = newProtocol]

blekb_setProtocol(m, payload) == [m EXCEPT !.kbapp_protocol = payload]

\* (variant: the battery report is sent in boot protocol too)
kbapp_batLevelChangeNotification_AnyProtocol(m, newLevel) ==
    kbapp_batRptSend([m EXCEPT !.batRpt.level = newLevel])

kbapp_batLevelChangeNotification(m, newLevel) ==
    IF m.kbapp_protocol = PROTOCOL_REPORT
    THEN kbapp_batRptSend([m EXCEPT !.batRpt.level = newLevel])
    ELSE m

kbapp_setIdleRate(m, idleRateIn4msUnits) ==
    [m EXCEPT !.idleRate = idleRateIn4msUnits]

kbapp_shutdown(m) ==
    LET m1 == kbapp_flushUserInput(m)
    IN  IF m1.link.connected THEN Call(m1, "wiced_hidd_disconnect", <<>>) ELSE m1

kbapp_connectFailedNotification(m) == kbapp_flushUserInput(m)

(***************************************************************************)
(* Start-up and wake-up from shutdown sleep                                *)
(***************************************************************************)
kbapp_funcLockRptInit(m) ==
    [m EXCEPT !.funcLockRpt.status =
                  BitOr(m.funcLockInfo.state, FUNC_LOCK_EVENT_FLAG)]

\* por is wiced_hal_mia_is_reset_reason_por()
kbapp_init(m, por) ==
    LET m1 == IF por
              THEN [m EXCEPT !.kbapp_funcLock_state =
                                 m.kbAppConfig.defaultFuncLockState,
                             !.funcLockInfo.state =
                                 m.kbAppConfig.defaultFuncLockState]
              ELSE m
        m2 == [m1 EXCEPT !.funcLockInfo.kepPosition = "FUNC_LOCK_KEY_UP",
                         !.funcLockInfo.toggleStateOnKeyUp = FALSE]
    IN  Call(kbapp_clearAllReports(kbapp_funcLockRptInit(m2)),
             "wiced_hidd_link_init", <<>>)

\* (variant: the retained func-lock state is not copied back)
kbapp_aon_restore_LinkOnly(m, por) ==
    IF ~por
    THEN Call(Call(m, "wiced_ble_hidd_link_aon_action_handler", <<>>),
              "wiced_bt_hidd_link_aon_action_handler", <<>>)
    ELSE m

kbapp_aon_restore(m, por) ==
    IF ~por
    THEN Call(Call([m EXCEPT !.funcLockInfo.state = m.kbapp_funcLock_state],
                   "wiced_ble_hidd_link_aon_action_handler", <<>>),
              "wiced_bt_hidd_link_aon_action_handler", <<>>)
    ELSE m

(***************************************************************************)
(* State                                                                   *)
(***************************************************************************)
VARIABLES
    kbAppState,            \* the fields of tKbAppState
    kbapp_protocol,        \* PROTOCOL_BOOT or PROTOCOL_REPORT
    kbapp_funcLock_state,  \* the retained copy of the func-lock state
    link,                  \* the transport: connected, encrypted, transport
    kbAppConfig,           \* the configuration the application runs with
    log,                   \* the calls made by the last entry point
    rolloversInWindow,     \* rollover reports sent in the open recovery window
    stdRptSent             \* the standard report kbapp_stdRptSend sent last

vars == <<kbAppState, kbapp_protocol, kbapp_funcLock_state, link, kbAppConfig,
          log, rolloversInWindow, stdRptSent>>

DefaultConfig ==
    [connectButtonScanIndex    |-> KB_MAX_KEYS - 1,
     negateScroll              |-> FALSE,
     scrollScale               |-> 0,
     pollsToKeepFracScrollData |-> 0,
     scrollCombining           |-> TRUE,
     defaultFuncLockState      |-> FUNC_LOCK_STATE_OFF,
     securityRequired          |-> TRUE]

\* kbAppState after kbapp_init on a power-on reset
InitState(cfg) ==
    [eventQueue             |-> <<>>,
     stdRpt                 |-> [modifierKeys |-> 0,
                                 keyCodes |-> [i \in 1..maxKeysInStdRpt |-> 0]],
     keysInStdRpt           |-> 0,
     modKeysInStdRpt        |-> 0,
     bitMappedReport        |-> [bitMappedKeys |-> [i \in 1..NumBitRptBytes |-> 0]],
     keysInBitRpt           |-> 0,
     slpRpt                 |-> [sleepVal |-> 0],
     scrollReport           |-> [motionAxis0 |-> 0],
     pinReport              |-> [reportCode |-> 0],
     batRpt                 |-> [level |-> 0],
     funcLockRpt            |-> [status |-> BitOr(cfg.defaultFuncLockState,
                                                   FUNC_LOCK_EVENT_FLAG)],
     funcLockInfo           |-> [state |-> cfg.defaultFuncLockState,
                                 kepPosition |-> "FUNC_LOCK_KEY_UP",
                                 toggleStateOnKeyUp |-> FALSE],
     stdRptChanged          |-> FALSE,
     bitRptChanged          |-> FALSE,
     slpRptChanged          |-> FALSE,
     pinRptChanged          |-> FALSE,
     scrollRptChanged       |-> FALSE,
     funcLockRptChanged     |-> FALSE,
     recoveryInProgress     |-> 0,
     scrollFractional       |-> 0,
     pollsSinceScroll       |-> 0,
     idleRate               |-> 0,
     pinCodeEntryInProgress |-> PIN_ENTRY_MODE_NONE,
     pinCodeSize            |-> 0,
     pinCodeBuffer          |-> [i \in 1..MAX_PASS_SIZE |-> 0],
     enterKeyPressed        |-> 0,
     maxPinCodeSize         |-> 0]

NoInput ==
    [keyscanEvents |-> <<>>, scrollCount |-> 0, poolRoom |-> 0,
     idleDue |-> FALSE,
     oob |-> [type |-> "KEY_TYPE_NONE", translationValue |-> 0]]

\* the machine state an entry point starts from: the current state, an
\* empty log, what the collaborators will answer during the call, and the
\* indices kbKeyConfig[] is read with during the call (none yet)
Machine(input) ==
    [eventQueue             |-> kbAppState.eventQueue,
     stdRpt                 |-> kbAppState.stdRpt,
     keysInStdRpt           |-> kbAppState.keysInStdRpt,
     modKeysInStdRpt        |-> kbAppState.modKeysInStdRpt,
     bitMappedReport        |-> kbAppState.bitMappedReport,
     keysInBitRpt           |-> kbAppState.keysInBitRpt,
     slpRpt                 |-> kbAppState.slpRpt,
     scrollReport           |-> kbAppState.scrollReport,
     pinReport              |-> kbAppState.pinReport,
     batRpt                 |-> kbAppState.batRpt,
     funcLockRpt            |-> kbAppState.funcLockRpt,
     funcLockInfo           |-> kbAppState.funcLockInfo,
     stdRptChanged          |-> kbAppState.stdRptChanged,
     bitRptChanged          |-> kbAppState.bitRptChanged,
     slpRptChanged          |-> kbAppState.slpRptChanged,
     pinRptChanged          |-> kbAppState.pinRptChanged,
     scrollRptChanged       |-> kbAppState.scrollRptChanged,
     funcLockRptChanged     |-> kbAppState.funcLockRptChanged,
     recoveryInProgress     |-> kbAppState.recoveryInProgress,
     scrollFractional       |-> kbAppState.scrollFractional,
     pollsSinceScroll       |-> kbAppState.pollsSinceScroll,
     idleRate               |-> kbAppState.idleRate,
     pinCodeEntryInProgress |-> kbAppState.pinCodeEntryInProgress,
     pinCodeSize            |-> kbAppState.pinCodeSize,
     pinCodeBuffer          |-> kbAppState.pinCodeBuffer,
     enterKeyPressed        |-> kbAppState.enterKeyPressed,
     maxPinCodeSize         |-> kbAppState.maxPinCodeSize,
     kbapp_protocol         |-> kbapp_protocol,
     kbapp_funcLock_state   |-> kbapp_funcLock_state,
     link                   |-> link,
     kbAppConfig            |-> kbAppConfig,
     log                    |-> <<>>,
     rolloversInWindow      |-> rolloversInWindow,
     stdRptSent             |-> stdRptSent,
     keyscanEvents          |-> input.keyscanEvents,
     scrollCount            |-> input.scrollCount,
     poolRoom               |-> input.poolRoom,
     idleDue                |-> input.idleDue,
     oob                    |-> input.oob,
     keyConfigReads         |-> <<>>]

\* the machine after a reset that keeps the retention RAM: the data of the
\* application is as the image initialises it, dual_mode_keyboard_application_state
\* all zero and kbapp_protocol PROTOCOL_REPORT; kbapp_funcLock_state is kept
StartupData(m) ==
    LET zero == [InitState(m.kbAppConfig)
                    EXCEPT !.funcLockInfo.state = 0, !.funcLockRpt.status = 0]
    IN  [f \in DOMAIN m |->
            IF f \in DOMAIN zero THEN zero[f]
            ELSE IF f = "kbapp_protocol" THEN PROTOCOL_REPORT
            ELSE IF f = "rolloversInWindow" THEN 0
            ELSE m[f]]

\* the state an entry point leaves behind
Commit(m) ==
    /\ kbAppState' = [eventQueue             |-> m.eventQueue,
                      stdRpt                 |-> m.stdRpt,
                      keysInStdRpt           |-> m.keysInStdRpt,
                      modKeysInStdRpt        |-> m.modKeysInStdRpt,
                      bitMappedReport        |-> m.bitMappedReport,
                      keysInBitRpt           |-> m.keysInBitRpt,
                      slpRpt                 |-> m.slpRpt,
                      scrollReport           |-> m.scrollReport,
                      pinReport              |-> m.pinReport,
                      batRpt                 |-> m.batRpt,
                      funcLockRpt            |-> m.funcLockRpt,
                      funcLockInfo           |-> m.funcLockInfo,
                      stdRptChanged          |-> m.stdRptChanged,
                      bitRptChanged          |-> m.bitRptChanged,
                      slpRptChanged          |-> m.slpRptChanged,
                      pinRptChanged          |-> m.pinRptChanged,
                      scrollRptChanged       |-> m.scrollRptChanged,
                      funcLockRptChanged     |-> m.funcLockRptChanged,
                      recoveryInProgress     |-> m.recoveryInProgress,
                      scrollFractional       |-> m.scrollFractional,
                      pollsSinceScroll       |-> m.pollsSinceScroll,
                      idleRate               |-> m.idleRate,
                      pinCodeEntryInProgress |-> m.pinCodeEntryInProgress,
                      pinCodeSize            |-> m.pinCodeSize,
                      pinCodeBuffer          |-> m.pinCodeBuffer,
                      enterKeyPressed        |-> m.enterKeyPressed,
                      maxPinCodeSize         |-> m.maxPinCodeSize]
    /\ kbapp_protocol' = m.kbapp_protocol
    /\ kbapp_funcLock_state' = m.kbapp_funcLock_state
    /\ link' = m.link
    /\ log' = m.log
    /\ rolloversInWindow' = m.rolloversInWindow
    /\ stdRptSent' = m.stdRptSent
    /\ UNCHANGED kbAppConfig

InitWith(cfgs) ==
    /\ kbAppConfig \in cfgs
    /\ kbAppState = InitState(kbAppConfig)
    /\ kbapp_protocol = PROTOCOL_REPORT
    /\ kbapp_funcLock_state = kbAppConfig.defaultFuncLockState
    /\ link = [connected |-> TRUE, encrypted |-> TRUE,
               transport |-> "BT_TRANSPORT_BR_EDR"]
    /\ log = <<>>
    /\ rolloversInWindow = 0
    /\ stdRptSent = <<>>

(***************************************************************************)
(* Inputs                                                                  *)
(***************************************************************************)
SeqsUpTo(S, n) == UNION {[1..k -> S] : k \in 0..n}

KeyEvents(scanCodes) ==
    {KeyEvent(k, f) : k \in scanCodes, f \in {KEY_DOWN, KEY_UP}}

EndOfScanCycle == KeyEvent(END_OF_SCAN_CYCLE, KEY_DOWN)
GhostEvent == KeyEvent(GHOST_SCAN_CODE, KEY_DOWN)

StdScanCodes == 0..(NumStdKeys - 1)

\* what the keyscan driver can hold at a poll: at most n events of one
\* scan, the keys in scan order, an end-of-scan-cycle event only last
ScanBatches(events, n) ==
    {b \in SeqsUpTo(events, n) :
        \A i \in 1..(Len(b) - 1) :
            /\ b[i] # EndOfScanCycle
            /\ (b[i].keyCode < KB_MAX_KEYS /\ b[i + 1].keyCode < KB_MAX_KEYS)
                   => b[i].keyCode < b[i + 1].keyCode}

\* enough free buffer for every check of one poll
PoolRoomMax == maxEventNum + 2

(***************************************************************************)
(* Actions                                                                 *)
(***************************************************************************)
\* the transport calls the poll callback; the keyscan driver holds batch,
\* the scroll wheel has moved by scrollCount
PollWith(batches, scrollCounts, poolRooms) ==
    \E batch \in batches, scrollCount \in scrollCounts, poolRoom \in poolRooms,
       idleDue \in IF kbAppState.idleRate # 0 THEN BOOLEAN ELSE {FALSE} :
        Commit(kbapp_pollReportUserActivity(
                   Machine([NoInput EXCEPT !.keyscanEvents = batch,
                                           !.scrollCount = scrollCount,
                                           !.poolRoom = poolRoom,
                                           !.idleDue = idleDue])))

BatLevels == {100}

BatLevelChange ==
    \E newLevel \in BatLevels :
        Commit(kbapp_batLevelChangeNotification(Machine(NoInput), newLevel))

SetProtocol ==
    \E newProtocol \in {PROTOCOL_BOOT, PROTOCOL_REPORT} :
        Commit(kbapp_setProtocol(Machine(NoInput), newProtocol))

BleSetProtocol ==
    \E payload \in {PROTOCOL_BOOT, PROTOCOL_REPORT} :
        Commit(blekb_setProtocol(Machine(NoInput), payload))

IdleRates == {0, 1}

SetIdleRate ==
    \E rate \in IdleRates :
        Commit(kbapp_setIdleRate(Machine(NoInput), rate))

ConnectFailed ==
    /\ TRUE
    /\ Commit(kbapp_connectFailedNotification(Machine(NoInput)))

Shutdown ==
    /\ TRUE
    /\ Commit(kbapp_shutdown(Machine(NoInput)))

(***************************************************************************)
(* Specification: a connected keyboard with standard keys                  *)
(***************************************************************************)
MainEvents == KeyEvents(StdScanCodes) \cup {EndOfScanCycle, GhostEvent}

MainBatches == ScanBatches(MainEvents, MaxBatch)

Init == InitWith({DefaultConfig})

Poll == PollWith(MainBatches, {0, 1}, {PoolRoomMax})

Next ==
    \/ Poll
    \/ SetProtocol
    \/ BleSetProtocol
    \/ ConnectFailed

Spec == Init /\ [][Next]_vars

(***************************************************************************)
(* Specification: every source of reports                                  *)
(* one standard key, the scroll wheel, the idle rate, the battery monitor  *)
(***************************************************************************)
ReportEvents == KeyEvents({0}) \cup {EndOfScanCycle, GhostEvent}

PollReports ==
    PollWith(ScanBatches(ReportEvents, MaxBatch), {0, 1}, {PoolRoomMax})

NextReports ==
    \/ PollReports
    \/ BatLevelChange
    \/ SetIdleRate
    \/ SetProtocol

SpecReports == Init /\ [][NextReports]_vars

(***************************************************************************)
(* Specification: the func-lock key                                        *)
(* standard keys to fill the report, the func-lock key and a key that      *)
(* depends on it                                                           *)
(***************************************************************************)
FuncLockEvents ==
    {KeyEvent(k, KEY_DOWN) : k \in 0..(maxKeysInStdRpt - 1)}
        \cup KeyEvents({SC_FUNCLOCK, SC_DEP})
        \cup {EndOfScanCycle}

PollFuncLock ==
    PollWith(ScanBatches(FuncLockEvents, MaxBatch), {0}, {PoolRoomMax})

NextFuncLock ==
    \/ PollFuncLock
    \/ SetProtocol
    \/ BleSetProtocol

SpecFuncLock == Init /\ [][NextFuncLock]_vars

(***************************************************************************)
(* Specification: the keys of the reports that recovery marks as changed   *)
(* a standard key, a bit-mapped key, the sleep key, the scroll wheel,      *)
(* protocol switches                                                       *)
(***************************************************************************)
ReportKeys == {0, SC_BIT, SC_SLEEP}

PollKeys ==
    PollWith(ScanBatches(KeyEvents(ReportKeys) \cup {EndOfScanCycle}, MaxBatch),
             {0, 1}, {PoolRoomMax})

NextKeys ==
    \/ PollKeys
    \/ SetProtocol
    \/ BleSetProtocol

SpecKeys == Init /\ [][NextKeys]_vars

(***************************************************************************)
(* Specification: the keys of the bit-mapped report                        *)
(* a bit-mapped key, the func-lock key and a key that depends on it,       *)
(* protocol switches, flushes                                              *)
(***************************************************************************)
BitKeys == {SC_BIT, SC_FUNCLOCK, SC_DEP}

PollBitKeys ==
    PollWith(ScanBatches(KeyEvents(BitKeys) \cup {EndOfScanCycle}, MaxBatch),
             {0}, {PoolRoomMax})

NextBitKeys ==
    \/ PollBitKeys
    \/ SetProtocol
    \/ BleSetProtocol
    \/ ConnectFailed

SpecBitKeys == Init /\ [][NextBitKeys]_vars

(***************************************************************************)
(* Specification: pin code and pass code entry                             *)
(* a digit key and the Enter key; the transport asks for a pin code or a   *)
(* pass code and ends the entry                                            *)
(***************************************************************************)
PinKeys == {0, SC_ENTER}

\* what a read past the end of kbKeyConfig[] can yield
OobReads == {[type |-> "KEY_TYPE_NONE", translationValue |-> 0],
             [type |-> "KEY_TYPE_STD",  translationValue |-> USB_USAGE_ENTER]}

PollPin ==
    \E batch \in ScanBatches(KeyEvents(PinKeys) \cup {EndOfScanCycle}, MaxBatch),
       scrollCount \in {0, 1}, oob \in OobReads :
        Commit(kbapp_pollReportUserActivity(
                   Machine([NoInput EXCEPT !.keyscanEvents = batch,
                                           !.scrollCount = scrollCount,
                                           !.poolRoom = PoolRoomMax,
                                           !.oob = oob])))

EnterPinCodeEntryMode ==
    /\ TRUE
    /\ Commit(kbapp_enterPinCodeEntryMode(Machine(NoInput)))

EnterPassCodeEntryMode ==
    /\ TRUE
    /\ Commit(kbapp_enterPassCodeEntryMode(Machine(NoInput)))

ExitPinAndPassCodeEntryMode ==
    /\ TRUE
    /\ Commit(kbapp_exitPinAndPassCodeEntryMode(Machine(NoInput)))

NextPin ==
    \/ PollPin
    \/ EnterPinCodeEntryMode
    \/ EnterPassCodeEntryMode
    \/ ExitPinAndPassCodeEntryMode

SpecPin == Init /\ [][NextPin]_vars

(***************************************************************************)
(* Specification: the func-lock state across shutdown sleep                *)
(* both default func-lock states, the func-lock key, ghost keys, protocol  *)
(* switches, flushes, and the wake-up from shutdown sleep                  *)
(***************************************************************************)
RetainedConfigs ==
    {[DefaultConfig EXCEPT !.defaultFuncLockState = d] :
        d \in {FUNC_LOCK_STATE_OFF, FUNC_LOCK_STATE_ON}}

InitRetained == InitWith(RetainedConfigs)

PollRetained ==
    PollWith(ScanBatches(KeyEvents({SC_FUNCLOCK}) \cup {EndOfScanCycle, GhostEvent},
                         MaxBatch),
             {0}, {PoolRoomMax})

\* the device wakes up from shutdown sleep: the image restarts with a
\* reset reason other than power-on, the retained state is restored and
\* dual_mode_kb_create initialises the application and polls once
WakeFromSds ==
    /\ TRUE
    /\ Commit(kbapp_pollReportUserActivity(
                  kbapp_init(kbapp_aon_restore(StartupData(Machine(NoInput)),
                                               FALSE),
                             FALSE)))

NextRetained ==
    \/ PollRetained
    \/ SetProtocol
    \/ BleSetProtocol
    \/ ConnectFailed
    \/ WakeFromSds

SpecRetained == InitRetained /\ [][NextRetained]_vars

(***************************************************************************)
(* Specification: a transport that fills up                                *)
(* one standard key and the scroll wheel; the buffer pool is below the     *)
(* threshold for none, one or all of the checks of a poll                  *)
(***************************************************************************)
PoolRooms == {0, 1, PoolRoomMax}

BackpressureBatches ==
    ScanBatches(KeyEvents({0}) \cup {EndOfScanCycle}, MaxBatch)

PollBackpressure == PollWith(BackpressureBatches, {0, 1}, PoolRooms)

NextBackpressure ==
    \/ PollBackpressure
    \/ ConnectFailed

SpecBackpressure == Init /\ [][NextBackpressure]_vars

(***************************************************************************)
(* Specification: the idle rate                                            *)
(* a standard key, a modifier key and ghost keys; the host sets the idle   *)
(* rate; the pool has room for none, one or all of the checks of a poll    *)
(***************************************************************************)
IdleBatches ==
    ScanBatches(KeyEvents({0, SC_MOD}) \cup {EndOfScanCycle, GhostEvent}, MaxBatch)

PollIdle == PollWith(IdleBatches, {0}, PoolRooms)

NextIdle ==
    \/ PollIdle
    \/ SetIdleRate
    \/ ConnectFailed

SpecIdle == Init /\ [][NextIdle]_vars

(***************************************************************************)
(* Specification: the callbacks of the transport                           *)
(* a func-lock dependent key (standard report in boot protocol, bit-mapped *)
(* report in report protocol), a transport that is full or empty, and      *)
(* every callback the transport can make between two polls                 *)
(***************************************************************************)
PollCallbacks ==
    PollWith(ScanBatches(KeyEvents({SC_DEP}) \cup {EndOfScanCycle}, MaxBatch),
             {0}, {0, PoolRoomMax})

NextCallbacks ==
    \/ PollCallbacks
    \/ SetProtocol
    \/ SetIdleRate
    \/ ConnectFailed
    \/ EnterPinCodeEntryMode
    \/ EnterPassCodeEntryMode
    \/ ExitPinAndPassCodeEntryMode
    \/ BatLevelChange
    \/ Shutdown

SpecCallbacks == Init /\ [][NextCallbacks]_vars

(***************************************************************************)
(* Specification: a link that comes and goes                               *)
(* with and without the security requirement; a standard key; the link    *)
(* connects, disconnects and becomes encrypted; paging fails               *)
(***************************************************************************)
LinkConfigs ==
    {[DefaultConfig EXCEPT !.securityRequired = r] : r \in BOOLEAN}

InitLink == InitWith(LinkConfigs)

PollLink ==
    PollWith(ScanBatches(KeyEvents({0}) \cup {EndOfScanCycle}, MaxBatch),
             {0}, {PoolRoomMax})

\* kbapp_btStateChangeNotification: the transport reports a new link state;
\* the application state is left alone
LinkStateChange ==
    \E connected \in BOOLEAN, encrypted \in BOOLEAN :
        /\ encrypted => connected
        /\ Commit([Machine(NoInput) EXCEPT !.link.connected = connected,
                                           !.link.encrypted = encrypted])

NextLink ==
    \/ PollLink
    \/ LinkStateChange
    \/ ConnectFailed

SpecLink == InitLink /\ [][NextLink]_vars

(***************************************************************************)
(* Specification: the scroll wheel with scaling                            *)
(* every scale factor up to MaxScrollScale, with and without negation,     *)
(* counts of both signs, protocol switches, flushes                        *)
(***************************************************************************)
ScrollConfigs ==
    {[DefaultConfig EXCEPT !.scrollScale = s, !.negateScroll = n] :
        s \in 1..MaxScrollScale, n \in BOOLEAN}

\* what scroll_getCount() can return when the wheel has moved
ScrollCounts == (-MaxScrollCount..MaxScrollCount) \ {0}

InitScroll == InitWith(ScrollConfigs)

PollScroll == PollWith({<<>>}, ScrollCounts \cup {0}, {PoolRoomMax})

NextScroll ==
    \/ PollScroll
    \/ SetProtocol
    \/ ConnectFailed

SpecScroll == InitScroll /\ [][NextScroll]_vars

(***************************************************************************)
(* Reading the log                                                         *)
(***************************************************************************)
HandlerOps ==
    {"kbapp_stdRptProcEvtKey", "kbapp_stdRptProcEvtModKey",
     "kbapp_bitRptProcEvtKey", "kbapp_slpRptProcEvtKey",
     "kbapp_funcLockProcEvtKey", "kbapp_funcLockProcEvtDepKey"}

ErrorOps == {"kbapp_procErrKeyscan", "kbapp_procErrEvtQueue"}

RemoveOp == "wiced_hidd_event_queue_remove_current_element"

LogIdx == 1..Len(log)

\* the positions of the log where one of ops was called
OpsAt(ops) == {i \in LogIdx : log[i].op \in ops}

\* the calls of kbapp_procEvtKey: a call made at position i of the log
\* returns at position CallEnd(i); Within(i) lies strictly inside it
CallStarts == OpsAt({"kbapp_procEvtKey"})
CallEnd(i) ==
    CHOOSE j \in LogIdx :
        /\ j > i
        /\ log[j].op = "return_kbapp_procEvtKey"
        /\ \A h \in (i + 1)..(j - 1) : log[h].op # "return_kbapp_procEvtKey"
Within(i) == (i + 1)..(CallEnd(i) - 1)

IsStdTx(e) == e.op = "tx_std"
\* the standard reports a log transmits
StdTx(l) == SelectSeq(l, IsStdTx)

\* the key codes a state holds in its standard report
KeySet(st) == {st.stdRpt.keyCodes[i] : i \in 1..st.keysInStdRpt}

Usage(k) == kbKeyConfig(k).translationValue

ZeroStdRptData == <<0>> \o [i \in 1..maxKeysInStdRpt |-> 0]

\* the queue a scan cycle with one change of key k leaves
CycleData(k, upDownFlag) ==
    << <<k, upDownFlag>>, <<END_OF_SCAN_CYCLE, KEY_DOWN>> >>

\* log l is of a poll that, connected and outside recovery, found queue q
\* and generated reports from it
Drained(l, q) ==
    \E i \in 1..Len(l) :
        /\ l[i].op = "kbapp_generateAndTxReports"
        /\ l[i].recovery = 0
        /\ l[i].data = q

(***************************************************************************)
(* C1                                                                      *)
(***************************************************************************)
\* what C1 promises of a key-down cycle of k, of the state and log after it
DownCyclePost(st, l, k) ==
    /\ Usage(k) \in KeySet(st)
    /\ Len(StdTx(l)) = 1
    /\ StdTx(l)[1].data = StdRptData(st.stdRpt)
    /\ Usage(k) \in {StdTx(l)[1].data[i] : i \in 2..(maxKeysInStdRpt + 1)}
    /\ ~st.stdRptChanged

\* what C1 promises of the key-up cycle that follows
UpCyclePost(st, l) ==
    /\ st.keysInStdRpt = 0
    /\ Len(StdTx(l)) = 1
    /\ StdTx(l)[1].data = ZeroStdRptData

\* C1 (as stated): every poll that, connected, outside recovery and with
\* pin entry off, drains [keyDown(k), END_OF_SCAN_CYCLE] leaves the usage
\* code of k in the standard report and transmits exactly one standard
\* report with that content, and a following poll that drains [keyUp(k),
\* END_OF_SCAN_CYCLE] leaves no key and transmits exactly one all-zero
\* standard report.
C1_AsStated ==
    [][\A k \in StdScanCodes :
          /\ (/\ kbAppState.pinCodeEntryInProgress = PIN_ENTRY_MODE_NONE
              /\ Drained(log', CycleData(k, KEY_DOWN)))
                 => DownCyclePost(kbAppState', log', k)
          /\ (/\ kbAppState.pinCodeEntryInProgress = PIN_ENTRY_MODE_NONE
              /\ Drained(log, CycleData(k, KEY_DOWN))
              /\ Drained(log', CycleData(k, KEY_UP)))
                 => UpCyclePost(kbAppState', log')]_vars

\* C1 (amended): the same, for a key-down cycle that starts with the usage
\* code of k absent from a standard report that is not full, and for a
\* key-up cycle that starts with the usage code of k the only key of the
\* report and no modifier down.
C1_KeyCycle ==
    [][\A k \in StdScanCodes :
          /\ (/\ kbAppState.pinCodeEntryInProgress = PIN_ENTRY_MODE_NONE
              /\ Usage(k) \notin KeySet(kbAppState)
              /\ kbAppState.keysInStdRpt < maxKeysInStdRpt
              /\ Drained(log', CycleData(k, KEY_DOWN)))
                 => DownCyclePost(kbAppState', log', k)
          /\ (/\ kbAppState.pinCodeEntryInProgress = PIN_ENTRY_MODE_NONE
              /\ KeySet(kbAppState) = {Usage(k)}
              /\ kbAppState.stdRpt.modifierKeys = 0
              /\ Drained(log, CycleData(k, KEY_DOWN))
              /\ Drained(log', CycleData(k, KEY_UP)))
                 => UpCyclePost(kbAppState', log')]_vars

\* a key-up cycle has emptied the standard report and sent it all zero
C1_Witness ==
    /\ \E k \in StdScanCodes : Drained(log, CycleData(k, KEY_UP))
    /\ UpCyclePost(kbAppState, log)

(***************************************************************************)
(* C2                                                                      *)
(***************************************************************************)
\* C2 (as stated): no report of any kind is transmitted while
\* recoveryInProgress is nonzero.
C2_AsStated ==
    \A i \in OpsAt(TxOps) : log[i].recovery = 0

\* C2 (amended): while recoveryInProgress is nonzero no key report
\* (standard, bit-mapped, sleep, func-lock, scroll) and no pin report is
\* transmitted, and the rollover report is sent only by an error response
\* entered with recoveryInProgress zero; the battery report is not held
\* back by recovery.
C2_NoKeyReportInRecovery ==
    /\ \A i \in OpsAt(KeyTxOps \cup {"tx_pin"}) : log[i].recovery = 0
    /\ \A i \in OpsAt({"tx_rollover"}) :
          /\ log[i].recovery = 0
          /\ i > 1
          /\ log[i - 1].op = "kbapp_stdErrResp"

\* an end-of-scan-cycle flush was made during recovery with the standard
\* report marked as changed, and recovery is still in progress
C2_Witness ==
    /\ kbAppState.recoveryInProgress # 0
    /\ kbAppState.stdRptChanged
    /\ \E i \in OpsAt({"wiced_hidd_activity_detected"}) : log[i].recovery # 0

\* a scroll event was processed during recovery
C2_WitnessScroll ==
    \E i \in OpsAt({"kbapp_procEvtScroll"}) : log[i].recovery # 0

(***************************************************************************)
(* C3                                                                      *)
(***************************************************************************)
\* C3: in every call of kbapp_procEvtKey in which a standard key-down
\* overflows the standard report, kbapp_stdErrRespWithFwHwReset is invoked
\* exactly once.
C3_ResetOnce ==
    \A c \in CallStarts :
        (\E i \in Within(c) : log[i].op = "kbapp_stdRptProcOverflow")
            => Cardinality({i \in Within(c) :
                              log[i].op = "kbapp_stdErrRespWithFwHwReset"}) = 1

(***************************************************************************)
(* C4                                                                      *)
(***************************************************************************)
\* C4: the rollover report has been sent exactly once in every open
\* recovery window (recoveryInProgress nonzero), however many error
\* responses the window has seen, and it is sent only by an error response
\* that finds recoveryInProgress zero.
C4_OneRolloverPerWindow ==
    /\ kbAppState.recoveryInProgress # 0 => rolloversInWindow = 1
    /\ kbAppState.recoveryInProgress = 0 => rolloversInWindow = 0
    /\ \A i \in OpsAt({"tx_rollover"}) : log[i].recovery = 0

\* an error response was made inside an open recovery window
C4_Witness ==
    /\ kbAppState.recoveryInProgress # 0
    /\ \E i \in OpsAt({"kbapp_procErrKeyscan"}) : log[i].recovery # 0

(***************************************************************************)
(* C5                                                                      *)
(***************************************************************************)
\* C5: in every call of kbapp_procEvtKey that finds the queue empty before
\* an end-of-scan-cycle event, kbapp_procErrEvtQueue is called exactly once
\* and no key report is transmitted.
C5_MissingTerminator ==
    \A c \in CallStarts :
        (\E i \in Within(c) : log[i].op = "queue_empty")
            => /\ Cardinality({i \in Within(c) :
                                 log[i].op = "kbapp_procErrEvtQueue"}) = 1
               /\ \A i \in Within(c) : log[i].op \notin KeyTxOps

\* a key-down was dispatched outside recovery, then the queue ran empty
C5_Witness ==
    \E c \in CallStarts : \E i, j \in Within(c) :
        /\ log[i].op = "kbapp_stdRptProcEvtKey"
        /\ log[i].data[1] = KEY_DOWN
        /\ log[i].recovery = 0
        /\ log[j].op = "queue_empty"
        /\ log[j].recovery = 0

(***************************************************************************)
(* C6                                                                      *)
(***************************************************************************)
\* the errors kbapp_procEvtKey raises on the event it peeks
PeekErrors ==
    {i \in OpsAt(ErrorOps) :
        /\ \E c \in CallStarts : i \in Within(c)
        /\ log[i - 1].op # "queue_empty"}

\* C6: when kbapp_procEvtKey peeks a ghost scan code or an event that is
\* no key event, the FW/HW reset is invoked at once, nothing is popped and
\* no key handler is called afterwards, and the queue is left empty.
C6_ErrorStopsDispatch ==
    \A i \in PeekErrors :
        /\ log[i + 1].op = "kbapp_stdErrRespWithFwHwReset"
        /\ log[i + 1].queued = log[i].queued
        /\ \A j \in (i + 1)..Len(log) : log[j].op \notin HandlerOps \cup {RemoveOp}
        /\ kbAppState.eventQueue = <<>>

\* a ghost scan code was peeked with at least one event queued behind it
C6_Witness ==
    \E i \in PeekErrors :
        /\ log[i].op = "kbapp_procErrKeyscan"
        /\ log[i].queued >= 2

\* an event that is no key event was peeked where a key event was expected
C6_WitnessNonKey ==
    \E i \in PeekErrors : log[i].op = "kbapp_procErrEvtQueue"

(***************************************************************************)
(* C7                                                                      *)
(***************************************************************************)
\* the standard key handler applied to key k once per flag of flags
RECURSIVE ApplyKeySeq(_, _, _)
ApplyKeySeq(m, k, flags) ==
    IF flags = <<>> THEN m
    ELSE ApplyKeySeq(kbapp_stdRptProcEvtKey(m, Head(flags), k, Usage(k)),
                     k, Tail(flags))

\* the sequences of key-down and key-up events that end in a key-up
UpDownSeqs ==
    {f \in SeqsUpTo({KEY_DOWN, KEY_UP}, MaxKeySeq) :
        f # <<>> /\ f[Len(f)] = KEY_UP}

Overflowed(m) ==
    \E i \in DOMAIN m.log : m.log[i].op = "kbapp_stdRptProcOverflow"

\* C7 (as stated): a sequence of key-down and key-up events for one
\* standard key that ends in a key-up and does not overflow leaves the
\* key set and keysInStdRpt as they were before the sequence.
C7_AsStated ==
    \A k \in StdScanCodes : \A f \in UpDownSeqs :
        LET r == ApplyKeySeq(Machine(NoInput), k, f)
        IN  ~Overflowed(r)
                => /\ KeySet(r) = KeySet(kbAppState)
                   /\ r.keysInStdRpt = kbAppState.keysInStdRpt

\* C7 (amended): such a sequence leaves the key set equal to the set
\* before the sequence without the key's usage code, the first
\* keysInStdRpt slots holding that set without repetition: the set is as
\* it was when the key was not in the report, one key smaller when it was.
C7_Pairing ==
    \A k \in StdScanCodes : \A f \in UpDownSeqs :
        LET r == ApplyKeySeq(Machine(NoInput), k, f)
        IN  ~Overflowed(r)
                => /\ KeySet(r) = KeySet(kbAppState) \ {Usage(k)}
                   /\ r.keysInStdRpt = Cardinality(KeySet(r))
                   /\ kbAppState.keysInStdRpt =
                          r.keysInStdRpt
                              + (IF Usage(k) \in KeySet(kbAppState) THEN 1 ELSE 0)

\* two keys are in the report, and a sequence with two key-downs of the
\* one that was put first removes it without an overflow
C7_Witness ==
    /\ kbAppState.keysInStdRpt = 2
    /\ \E k \in StdScanCodes :
          /\ kbAppState.stdRpt.keyCodes[1] = Usage(k)
          /\ LET r == ApplyKeySeq(Machine(NoInput), k,
                                  <<KEY_DOWN, KEY_DOWN, KEY_UP>>)
             IN  ~Overflowed(r) /\ r.keysInStdRpt = 1

(***************************************************************************)
(* C8                                                                      *)
(***************************************************************************)
\* C8: keysInStdRpt never exceeds maxKeysInStdRpt, the first keysInStdRpt
\* slots of the standard report hold pairwise distinct nonzero usage
\* codes, and a key-down for a usage code already in the report changes
\* nothing.
C8_StdRptInvariant ==
    /\ kbAppState.keysInStdRpt \in 0..maxKeysInStdRpt
    /\ \A i, j \in 1..kbAppState.keysInStdRpt :
          /\ kbAppState.stdRpt.keyCodes[i] # 0
          /\ i # j => kbAppState.stdRpt.keyCodes[i] # kbAppState.stdRpt.keyCodes[j]
    /\ \A k \in StdScanCodes :
          Usage(k) \in KeySet(kbAppState)
              => LET m == Machine(NoInput)
                     r == kbapp_stdRptProcEvtKeyDown(m, KEY_DOWN, k, Usage(k))
                 IN  r = m

\* the report is full and the last poll dispatched a key-down for a usage
\* code that was already in it
C8_Witness ==
    /\ kbAppState.keysInStdRpt = maxKeysInStdRpt
    /\ ~kbAppState.stdRptChanged
    /\ kbAppState.recoveryInProgress = 0
    /\ \E i \in OpsAt({"kbapp_stdRptProcEvtKey"}) :
          /\ log[i].data[1] = KEY_DOWN
          /\ log[i].data[3] \in KeySet(kbAppState)
          /\ \A j \in LogIdx : log[j].op \notin TxOps \cup ErrorOps

(***************************************************************************)
(* C9                                                                      *)
(***************************************************************************)
\* one more poll on machine m with the keyscan driver holding batch
PollOn(m, batch) ==
    kbapp_pollReportUserActivity(
        [m EXCEPT !.keyscanEvents = batch, !.scrollCount = 0,
                  !.poolRoom = PoolRoomMax, !.idleDue = FALSE])

\* the polls of batches one after the other; the log keeps growing
RECURSIVE RunPolls(_, _)
RunPolls(m, batches) ==
    IF batches = <<>> THEN m
    ELSE RunPolls(PollOn(m, Head(batches)), Tail(batches))

\* a scan cycle in which one key changes
Cycle(k, upDownFlag) == <<KeyEvent(k, upDownFlag), EndOfScanCycle>>

\* n polls that find no change
IdlePolls(n) == [i \in 1..n |-> <<>>]

FuncLockUpDown ==
    << Cycle(SC_FUNCLOCK, KEY_DOWN), Cycle(SC_FUNCLOCK, KEY_UP) >>

\* func-lock down, dependent key down, dependent key up, func-lock up,
\* with gap polls without a change after the dependent key went down
FuncLockAroundDep(gap) ==
    << Cycle(SC_FUNCLOCK, KEY_DOWN), Cycle(SC_DEP, KEY_DOWN) >>
        \o IdlePolls(gap)
        \o << Cycle(SC_DEP, KEY_UP), Cycle(SC_FUNCLOCK, KEY_UP) >>

Toggles(l) ==
    Cardinality({i \in DOMAIN l : l[i].op = "kbapp_funcLockToggle"})

FuncLockOps == {"kbapp_funcLockProcEvtKey", "kbapp_funcLockProcEvtDepKey"}

\* every func-lock and dependent key event of l was handled in report
\* protocol outside recovery
InReportOutsideRecovery(l) ==
    \A i \in DOMAIN l :
        l[i].op \in FuncLockOps
            => l[i].recovery = 0 /\ l[i].protocol = PROTOCOL_REPORT

NoErrResp(l) == \A i \in DOMAIN l : l[i].op # "kbapp_stdErrResp"

\* a state the func-lock sequences start from
FuncLockKeyUp ==
    /\ kbapp_protocol = PROTOCOL_REPORT
    /\ kbAppState.recoveryInProgress = 0
    /\ kbAppState.funcLockInfo.kepPosition = "FUNC_LOCK_KEY_UP"
    /\ kbAppState.eventQueue = <<>>

Gaps == {0, recoveryPollCount}

\* C9 (as stated): from a state in report protocol outside recovery with
\* the func-lock key tracked as up, func-lock down and up, every event
\* handled in report protocol outside recovery, toggle the lock state
\* once; func-lock down, dependent key down, dependent key up, func-lock
\* up toggle it twice and leave it as it was.
C9_AsStated ==
    FuncLockKeyUp =>
        /\ LET r == RunPolls(Machine(NoInput), FuncLockUpDown)
           IN  InReportOutsideRecovery(r.log) => Toggles(r.log) = 1
        /\ \A gap \in Gaps :
              LET r == RunPolls(Machine(NoInput), FuncLockAroundDep(gap))
              IN  InReportOutsideRecovery(r.log)
                      => /\ Toggles(r.log) = 2
                         /\ r.funcLockInfo.state = kbAppState.funcLockInfo.state

\* C9 (amended): the same, the second sequence toggling twice when no
\* error response is made between the func-lock down and the func-lock
\* up; after an error response (the dependent key-down overflowing the
\* standard report) the func-lock key is tracked as up, the func-lock up
\* is ignored and the state has been toggled once.
C9_FuncLockToggles ==
    FuncLockKeyUp =>
        /\ LET r == RunPolls(Machine(NoInput), FuncLockUpDown)
           IN  InReportOutsideRecovery(r.log)
                   => /\ Toggles(r.log) = 1
                      /\ r.funcLockInfo.state # kbAppState.funcLockInfo.state
        /\ \A gap \in Gaps :
              LET r == RunPolls(Machine(NoInput), FuncLockAroundDep(gap))
              IN  InReportOutsideRecovery(r.log)
                      => IF NoErrResp(r.log)
                         THEN /\ Toggles(r.log) = 2
                              /\ r.funcLockInfo.state = kbAppState.funcLockInfo.state
                         ELSE /\ Toggles(r.log) = 1
                              /\ r.funcLockInfo.state # kbAppState.funcLockInfo.state

\* the func-lock key-up of the last poll toggled the state, which it does
\* only after a dependent key went down while func-lock was held, and the
\* dependent key is in no report any more
C9_Witness ==
    /\ \E i \in LogIdx :
          /\ log[i].op = "kbapp_funcLockProcEvtKey"
          /\ log[i].data[1] = KEY_UP
          /\ log[i].recovery = 0
          /\ log[i].protocol = PROTOCOL_REPORT
          /\ i < Len(log)
          /\ log[i + 1].op = "kbapp_funcLockToggle"
    /\ kbAppState.keysInBitRpt = 0
    /\ kbAppState.keysInStdRpt = 0

(***************************************************************************)
(* C10                                                                     *)
(***************************************************************************)
DepKeyDowns ==
    {i \in OpsAt({"kbapp_funcLockProcEvtDepKey"}) : log[i].data[1] = KEY_DOWN}

DepTab == kbFuncLockDepKeyTransTab(kbKeyConfig(SC_DEP).translationValue)

ToStdRpt(i) ==
    /\ i < Len(log)
    /\ log[i + 1].op = "kbapp_stdRptProcEvtKey"
    /\ log[i + 1].data = <<KEY_DOWN, log[i].data[2], DepTab.stdRptCode>>

ToBitRpt(i) ==
    /\ i < Len(log)
    /\ log[i + 1].op = "kbapp_bitRptProcEvtKey"
    /\ log[i + 1].data = <<KEY_DOWN, log[i].data[2], DepTab.bitRptCode>>

\* the func-lock-dependent key going down in the current state
DepKeyDown ==
    kbapp_funcLockProcEvtDepKey(Machine(NoInput), KEY_DOWN, SC_DEP,
                                kbKeyConfig(SC_DEP).translationValue)

\* C10 (as stated): a func-lock-dependent key-down goes to the standard
\* report handler when the lock state is ON and to the bit-mapped handler
\* when the lock state is OFF or the protocol is boot.
C10_AsStated ==
    \A i \in DepKeyDowns :
        /\ log[i].funcLock = FUNC_LOCK_STATE_ON => ToStdRpt(i)
        /\ (log[i].funcLock = FUNC_LOCK_STATE_OFF
                \/ log[i].protocol = PROTOCOL_BOOT) => ToBitRpt(i)

\* C10 (amended): a func-lock-dependent key-down goes to the standard
\* report handler when the lock state is ON or the protocol is boot, and
\* to the bit-mapped handler when the lock state is OFF in report
\* protocol; in every case toggleStateOnKeyUp is set.
C10_DepKeyDownRouting ==
    /\ \A i \in DepKeyDowns :
          IF log[i].funcLock = FUNC_LOCK_STATE_ON
             \/ log[i].protocol = PROTOCOL_BOOT
          THEN ToStdRpt(i) /\ ~ToBitRpt(i)
          ELSE ToBitRpt(i) /\ ~ToStdRpt(i)
    /\ DepKeyDown.funcLockInfo.toggleStateOnKeyUp
    /\ (\E i \in DepKeyDowns :
           \A j \in (i + 1)..Len(log) :
               log[j].op \notin FuncLockOps \cup {"kbapp_stdErrResp"})
          => kbAppState.funcLockInfo.toggleStateOnKeyUp

\* a dependent key went down in boot protocol with the lock state OFF
C10_Witness ==
    \E i \in DepKeyDowns :
        /\ log[i].protocol = PROTOCOL_BOOT
        /\ log[i].funcLock = FUNC_LOCK_STATE_OFF
        /\ kbAppState.funcLockInfo.toggleStateOnKeyUp

\* a dependent key went down in report protocol with the lock state ON
C10_WitnessReport ==
    \E i \in DepKeyDowns :
        log[i].protocol = PROTOCOL_REPORT /\ log[i].funcLock = FUNC_LOCK_STATE_ON

(***************************************************************************)
(* C11                                                                     *)
(***************************************************************************)
\* bit rowCol of a bit-mapped report is set
BitSet(rpt, rowCol) ==
    BitAnd(rpt.bitMappedKeys[(rowCol \div 8) + 1], Pow2(rowCol % 8)) # 0

\* state st holds the func-lock-dependent key in one of its reports
DepKeyHeld(st) ==
    \/ DepTab.stdRptCode \in KeySet(st)
    \/ BitSet(st.bitMappedReport, DepTab.bitRptCode)

DepKeyUps ==
    {i \in OpsAt({"kbapp_funcLockProcEvtDepKey"}) : log[i].data[1] = KEY_UP}

\* the func-lock-dependent key going up in the current state
DepKeyUp ==
    kbapp_funcLockProcEvtDepKey(Machine(NoInput), KEY_UP, SC_DEP,
                                kbKeyConfig(SC_DEP).translationValue)

\* C11: once the key-up of the func-lock-dependent key is processed,
\* neither the standard report holds its usage code nor the bit-mapped
\* report its bit, whatever the lock state and the protocol are and were
\* when the key went down.
C11_NoStuckDepKey ==
    /\ ~DepKeyHeld(DepKeyUp)
    /\ (\E i \in DepKeyUps : \A j \in DepKeyDowns : j < i)
           => ~DepKeyHeld(kbAppState)

\* the dependent key went up in report protocol with the lock OFF, and the
\* cycle sent a standard report: the key had gone down into the standard
\* report under another lock state or protocol
C11_Witness ==
    /\ \E i \in DepKeyUps :
          /\ log[i].funcLock = FUNC_LOCK_STATE_OFF
          /\ log[i].protocol = PROTOCOL_REPORT
          /\ log[i].recovery = 0
    /\ \E i \in LogIdx : log[i].op = "tx_std"
    /\ \A i \in LogIdx : log[i].op \notin ErrorOps /\ log[i].recovery = 0
    /\ ~DepKeyHeld(kbAppState)

(***************************************************************************)
(* C12                                                                     *)
(***************************************************************************)
\* the reports that are only sent in report protocol are clear and the
\* func-lock key is tracked as up
ReportModeStateCleared(st) ==
    /\ st.keysInBitRpt = 0
    /\ st.bitMappedReport.bitMappedKeys = [i \in 1..NumBitRptBytes |-> 0]
    /\ st.slpRpt.sleepVal = 0
    /\ st.scrollReport.motionAxis0 = 0
    /\ st.funcLockInfo.kepPosition = "FUNC_LOCK_KEY_UP"

\* C12: whenever the protocol changes from boot to report, through
\* kbapp_setProtocol or blekb_setProtocol, the bit-mapped, sleep and
\* scroll reports are clear and the func-lock key is tracked as up
\* afterwards.
C12_BootToReportClears ==
    [][(kbapp_protocol = PROTOCOL_BOOT /\ kbapp_protocol' = PROTOCOL_REPORT)
          => ReportModeStateCleared(kbAppState')]_vars

(***************************************************************************)
(* C13                                                                     *)
(***************************************************************************)
\* the error response made in the current state
ErrResp == kbapp_stdErrResp(Machine(NoInput))

AllReportsCleared(st) ==
    /\ st.keysInStdRpt = 0
    /\ st.modKeysInStdRpt = 0
    /\ st.keysInBitRpt = 0
    /\ StdRptData(st.stdRpt) = ZeroStdRptData
    /\ st.bitMappedReport.bitMappedKeys = [i \in 1..NumBitRptBytes |-> 0]
    /\ st.slpRpt.sleepVal = 0
    /\ st.pinReport.reportCode = 0
    /\ st.scrollReport.motionAxis0 = 0

\* C13: kbapp_stdErrResp sets the func-lock key position to UP, leaves
\* funcLockInfo.state and toggleStateOnKeyUp as they are, and clears the
\* standard, bit-mapped, sleep, pin and scroll reports and their counters.
C13_ErrRespKeepsFuncLock ==
    /\ ErrResp.funcLockInfo.kepPosition = "FUNC_LOCK_KEY_UP"
    /\ ErrResp.funcLockInfo.state = kbAppState.funcLockInfo.state
    /\ ErrResp.funcLockInfo.toggleStateOnKeyUp =
           kbAppState.funcLockInfo.toggleStateOnKeyUp
    /\ ErrResp.kbapp_funcLock_state = kbapp_funcLock_state
    /\ AllReportsCleared(ErrResp)
    /\ \A i \in OpsAt({"kbapp_stdErrResp"}) :
          (\A j \in (i + 1)..Len(log) :
               log[j].op \notin HandlerOps \cup {"kbapp_funcLockToggle"})
              => /\ kbAppState.funcLockInfo.state = log[i].funcLock
                 /\ kbAppState.funcLockInfo.kepPosition = "FUNC_LOCK_KEY_UP"
                 /\ AllReportsCleared(kbAppState)

\* an error response was made with the lock ON, the func-lock key held
\* and the toggle flag set; the lock is still ON and the flag still set
C13_Witness ==
    /\ \E i \in OpsAt({"kbapp_stdErrResp"}) :
          /\ log[i].funcLock = FUNC_LOCK_STATE_ON
          /\ log[i].recovery = 0
    /\ kbAppState.funcLockInfo.state = FUNC_LOCK_STATE_ON
    /\ kbAppState.funcLockInfo.toggleStateOnKeyUp
    /\ kbAppState.funcLockInfo.kepPosition = "FUNC_LOCK_KEY_UP"
    /\ AllReportsCleared(kbAppState)

(***************************************************************************)
(* C14                                                                     *)
(***************************************************************************)
Report(op, data) == [op |-> op, data |-> data]

TxIf(changed, op, data) == IF changed THEN <<Report(op, data)>> ELSE <<>>

\* the reports kbapp_txModifiedKeyReports owes the host in state st under
\* protocol
ChangedReports(st, protocol) ==
    TxIf(st.stdRptChanged, "tx_std", StdRptData(st.stdRpt))
    \o (IF protocol # PROTOCOL_REPORT THEN <<>>
        ELSE TxIf(st.bitRptChanged, "tx_bit", st.bitMappedReport.bitMappedKeys)
             \o TxIf(st.slpRptChanged, "tx_slp", <<st.slpRpt.sleepVal>>)
             \o TxIf(st.funcLockRptChanged, "tx_funcLock", <<st.funcLockRpt.status>>)
             \o TxIf(st.scrollRptChanged, "tx_scroll",
                     <<st.scrollReport.motionAxis0>>))

\* the reports log l transmits from position i on, up to the first call
\* that is no transmission
RECURSIVE TxRun(_, _)
TxRun(l, i) ==
    IF i > Len(l) \/ l[i].op \notin TxOps THEN <<>>
    ELSE <<Report(l[i].op, l[i].data)>> \o TxRun(l, i + 1)

\* log l is of a poll that generated reports with the recovery count at n
GeneratedAt(l, n) ==
    /\ l # <<>>
    /\ l[1].op = "kbapp_generateAndTxReports"
    /\ l[1].recovery = n

\* C14: the error response leaves the standard, bit-mapped and sleep
\* reports marked as changed, and the poll that takes the recovery count
\* from one to zero transmits, before it dispatches an event, every report
\* whose changed flag is set with the content it has then: the standard
\* report always, the bit-mapped, sleep, func-lock and scroll reports in
\* report protocol.
C14_CatchUp ==
    [][/\ ErrResp.stdRptChanged /\ ErrResp.bitRptChanged /\ ErrResp.slpRptChanged
       /\ (/\ kbAppState.recoveryInProgress = 1
           /\ kbAppState.pinCodeEntryInProgress = PIN_ENTRY_MODE_NONE
           /\ GeneratedAt(log', 1))
              => TxRun(log', 2) = ChangedReports(kbAppState, kbapp_protocol)]_vars

\* the recovery count went from one to zero in report protocol and the
\* poll transmitted the standard report and then a bit-mapped report
\* holding a key pressed during recovery
C14_Witness ==
    /\ GeneratedAt(log, 1)
    /\ Len(log) >= 3
    /\ log[1].protocol = PROTOCOL_REPORT
    /\ log[2].op = "tx_std"
    /\ log[3].op = "tx_bit"
    /\ log[3].data # [i \in 1..NumBitRptBytes |-> 0]
    /\ kbAppState.recoveryInProgress = 0

\* the recovery count went from one to zero in boot protocol
C14_WitnessBoot ==
    /\ GeneratedAt(log, 1)
    /\ log[1].protocol = PROTOCOL_BOOT
    /\ Len(log) >= 2
    /\ log[2].op = "tx_std"
    /\ kbAppState.bitRptChanged

(***************************************************************************)
(* C15                                                                     *)
(***************************************************************************)
\* the calls that process a queued event outside pin entry
DispatchOps ==
    HandlerOps \cup ErrorOps \cup {"kbapp_procEvtKey", "kbapp_procEvtScroll"}

\* the key reports, the func-lock state and the key counters of st
KeyReportState(st) ==
    << st.stdRpt, st.bitMappedReport, st.slpRpt, st.funcLockRpt,
       st.funcLockInfo, st.keysInStdRpt, st.modKeysInStdRpt, st.keysInBitRpt >>

\* the step is a poll made over a connected link
PollStep == log' # <<>> /\ log'[Len(log')].op = "wiced_hal_batmon_poll_monitor"

\* C15: pin or pass code entry and normal processing exclude each other.
\* In a poll that starts with pinCodeEntryInProgress other than NONE no
\* event reaches the key dispatcher or the scroll processor, the
\* standard, bit-mapped, sleep and func-lock state and the key counters
\* are what they were before the poll, and no report other than the pin
\* report is transmitted.
C15_PinEntryExcludesDispatch ==
    [][(kbAppState.pinCodeEntryInProgress # PIN_ENTRY_MODE_NONE /\ PollStep)
          => /\ \A i \in 1..Len(log') :
                   /\ log'[i].op \notin DispatchOps
                   /\ log'[i].op \in TxOps => log'[i].op = "tx_pin"
             /\ KeyReportState(kbAppState') = KeyReportState(kbAppState)]_vars

\* a poll in legacy pin entry took a digit from a queued key-down and a
\* scroll event, and transmitted the pin report
C15_Witness ==
    /\ kbAppState.pinCodeEntryInProgress = LEGACY_PIN_ENTRY_IN_PROGRESS
    /\ kbAppState.pinCodeSize = 1
    /\ Len(log) >= 4
    /\ log[1].op = RemoveOp /\ log[1].queued = 2
    /\ log[2].op = RemoveOp
    /\ \E i \in LogIdx : log[i].op = "tx_pin"
    /\ log[Len(log)].op = "wiced_hal_batmon_poll_monitor"

\* a poll that started in pin entry completed the entry
C15_WitnessCompleted ==
    /\ kbAppState.pinCodeEntryInProgress = PIN_ENTRY_MODE_NONE
    /\ \E i \in LogIdx : log[i].op = "bthidlink_pinCode"
    /\ log[Len(log)].op = "wiced_hal_batmon_poll_monitor"

(***************************************************************************)
(* C16                                                                     *)
(***************************************************************************)
PinEvents == KeyEvents(PinKeys) \cup {EndOfScanCycle}

\* the pin or pass code was handed to the transport
PinEntryCompleted(m) ==
    \E i \in 1..Len(m.log) : m.log[i].op \in {"bthidlink_pinCode", "bthidlink_passCode"}

\* kbapp_handlePinEntry finds event alone in the queue; a read past the
\* key table yields oob
HandlePinEvent(event, oob) ==
    kbapp_handlePinEntry([Machine([NoInput EXCEPT !.oob = oob])
                             EXCEPT !.eventQueue = <<event>>])

\* C16: once a key-down of Enter has latched its usage code in
\* enterKeyPressed, pin entry completes when, and only when, the event
\* processed is the key-up of the key with that usage code.
C16_CompletesOnEnterKeyUp ==
    (/\ kbAppState.pinCodeEntryInProgress # PIN_ENTRY_MODE_NONE
     /\ kbAppState.enterKeyPressed # 0)
       => \A event \in PinEvents, oob \in OobReads :
             PinEntryCompleted(HandlePinEvent(event, oob))
               <=> /\ event.upDownFlag = KEY_UP
                   /\ event.keyCode < kbKeyConfig_size
                   /\ kbKeyConfig(event.keyCode).translationValue
                          = kbAppState.enterKeyPressed

(***************************************************************************)
(* C17                                                                     *)
(***************************************************************************)
Abs(x) == IF x < 0 THEN -x ELSE x

\* kbapp_pollActivityScroll called once for every count of counts, the
\* queue drained between the calls; returns the fraction left and the sum
\* of the whole numbers put into the scroll events
RECURSIVE ScrollRun(_, _, _)
ScrollRun(m, counts, sum) ==
    IF counts = <<>> THEN [scrollFractional |-> m.scrollFractional, sum |-> sum]
    ELSE LET r == kbapp_pollActivityScroll(
                      [m EXCEPT !.eventQueue = <<>>, !.scrollCount = Head(counts)])
         IN  ScrollRun(r, Tail(counts), sum + r.eventQueue[1].motion)

RECURSIVE SumSeq(_)
SumSeq(q) == IF q = <<>> THEN 0 ELSE Head(q) + SumSeq(Tail(q))

\* the count as kbapp_pollActivityScroll accumulates it
Accumulated(count) == IF kbAppConfig.negateScroll THEN -count ELSE count

ScrollSeqs == SeqsUpTo(ScrollCounts, MaxKeySeq)

\* C17: kbapp_scaleValue conserves the value and is sign-symmetric: for the
\* accumulator value v it is called with and the scale factor s it returns
\* q and leaves r with v = q*2^s + r, |r| < 2^s, r zero or of the sign of
\* v, and for -v it returns -q and leaves -r.  Over a sequence of counts
\* given to kbapp_pollActivityScroll the fraction before the sequence plus
\* the sum of the counts, each negated when negateScroll is set, equals
\* 2^s times the sum of the whole numbers queued plus the fraction left.
C17_ScaleConserves ==
    LET s == kbAppConfig.scrollScale
    IN  /\ \A count \in ScrollCounts :
              LET v   == kbAppState.scrollFractional + Accumulated(count)
                  sv  == kbapp_scaleValue(v, s)
                  neg == kbapp_scaleValue(-v, s)
              IN  /\ v = sv.result * Pow2(s) + sv.val
                  /\ Abs(sv.val) < Pow2(s)
                  /\ sv.val = 0 \/ (sv.val < 0) = (v < 0)
                  /\ neg.result = -sv.result
                  /\ neg.val = -sv.val
        /\ \A counts \in ScrollSeqs :
              LET r == ScrollRun(Machine(NoInput), counts, 0)
              IN  kbAppState.scrollFractional
                    + SumSeq([i \in 1..Len(counts) |-> Accumulated(counts[i])])
                  = r.sum * Pow2(s) + r.scrollFractional

\* the claim as stated: the sum of the counts equals 2^s times the sum of
\* the whole numbers plus the fraction left
C17_AsStated ==
    kbAppState.scrollFractional = 0
      => \A counts \in ScrollSeqs :
            LET r == ScrollRun(Machine(NoInput), counts, 0)
            IN  SumSeq(counts)
                  = r.sum * Pow2(kbAppConfig.scrollScale) + r.scrollFractional

\* a poll scaled a negative accumulator value by four: the scroll report
\* sent holds a negative whole number and a negative fraction is left
C17_Witness ==
    /\ kbAppConfig.scrollScale = 2
    /\ kbAppState.scrollFractional < 0
    /\ \E i \in LogIdx : log[i].op = "tx_scroll" /\ log[i].data[1] < 0

(***************************************************************************)
(* C18                                                                     *)
(***************************************************************************)
\* the number of bits set in the bit-mapped report of st
BitsSet(st) ==
    Cardinality({rowCol \in 0..(numBitMappedKeys - 1) :
                    BitSet(st.bitMappedReport, rowCol)})

\* the bits a key handled by the bit-mapped handler can have
BitRptCodes == {kbKeyConfig(SC_BIT).translationValue, DepTab.bitRptCode}

\* C18: keysInBitRpt is the number of bits set in bitMappedKeys, and the
\* bit-mapped handler marks the report as changed only when it flips a
\* bit: an event for a key that is already in the position it reports
\* changes nothing.
C18_BitRptInvariant ==
    /\ kbAppState.keysInBitRpt = BitsSet(kbAppState)
    /\ \A rowCol \in BitRptCodes : \A upDownFlag \in {KEY_DOWN, KEY_UP} :
          LET m == Machine(NoInput)
              r == kbapp_bitRptProcEvtKey(m, upDownFlag, SC_BIT, rowCol)
          IN  /\ r.keysInBitRpt = BitsSet(r)
              /\ IF BitSet(m.bitMappedReport, rowCol) = (upDownFlag = KEY_DOWN)
                 THEN /\ r.bitMappedReport = m.bitMappedReport
                      /\ r.bitRptChanged = m.bitRptChanged
                 ELSE /\ BitSet(r.bitMappedReport, rowCol) = (upDownFlag = KEY_DOWN)
                      /\ r.bitRptChanged

\* both keys are in the bit-mapped report, nothing is left to send, and
\* the last poll handled a key-down for a key that was already down
C18_Witness ==
    /\ kbAppState.keysInBitRpt = 2
    /\ ~kbAppState.bitRptChanged
    /\ kbAppState.recoveryInProgress = 0
    /\ \E i \in OpsAt({"kbapp_bitRptProcEvtKey"}) : log[i].data[1] = KEY_DOWN
    /\ \A i \in LogIdx : log[i].op \notin TxOps \cup ErrorOps

IsPrefix(p, q) == Len(p) <= Len(q) /\ SubSeq(q, 1, Len(p)) = p

IsSuffix(p, q) == Len(p) <= Len(q) /\ SubSeq(q, Len(q) - Len(p) + 1, Len(q)) = p

\* the queue as kbapp_generateAndTxReports found it in the poll that wrote l
QueueAtGenerate(l) ==
    l[CHOOSE i \in 1..Len(l) : l[i].op = "kbapp_generateAndTxReports"].data

\* the scan cycles and scroll batches dispatched in the poll that wrote l
DispatchCount(l) ==
    Cardinality({i \in 1..Len(l) :
                    l[i].op \in {"kbapp_procEvtKey", "kbapp_procEvtScroll"}})

\* the poll that finds batch and scrollCount, the pool below the threshold
\* for the next poolRoom checks
PollOf(batch, scrollCount, poolRoom) ==
    kbapp_pollReportUserActivity(
        Machine([NoInput EXCEPT !.keyscanEvents = batch,
                                !.scrollCount = scrollCount,
                                !.poolRoom = poolRoom]))

\* C20: backpressure.  A poll adds its events behind the ones already
\* queued; kbapp_generateAndTxReports dispatches a scan cycle or a scroll
\* batch only when the buffer utilization is below the threshold at that
\* moment, so never more of them than checks that found room; when it
\* stops, what is left in the queue is the tail of the queue it found,
\* unchanged and in order, and with no room at all it is the whole queue.
C20_Backpressure ==
    (kbAppState.pinCodeEntryInProgress = PIN_ENTRY_MODE_NONE /\ link.connected)
      => \A batch \in BackpressureBatches, scrollCount \in {0, 1},
            poolRoom \in PoolRooms :
            LET r    == PollOf(batch, scrollCount, poolRoom)
                q0   == QueueAtGenerate(r.log)
                left == QueueData(r.eventQueue)
            IN  /\ IsPrefix(QueueData(kbAppState.eventQueue), q0)
                /\ DispatchCount(r.log) <= poolRoom
                /\ IsSuffix(left, q0)
                /\ poolRoom = 0 => left = q0

\* a poll found a key-down and its end of scan cycle but no room in the
\* pool: nothing was dispatched and both events are still queued
C20_Witness ==
    /\ Len(kbAppState.eventQueue) = 2
    /\ kbAppState.eventQueue[1] = KeyEvent(0, KEY_DOWN)
    /\ kbAppState.eventQueue[2] = EndOfScanCycle
    /\ kbAppState.keysInStdRpt = 0
    /\ \E i \in LogIdx : log[i].op = "kbapp_generateAndTxReports"
    /\ \A i \in LogIdx : log[i].op \notin DispatchOps

\* the events a poll left queued for want of room were dispatched by a
\* later poll
C20_WitnessLater ==
    /\ kbAppState.eventQueue = <<>>
    /\ kbAppState.keysInStdRpt = 1
    /\ Len(log) >= 2
    /\ log[1].op = "kbapp_generateAndTxReports"
    /\ log[1].data = << <<0, KEY_DOWN>>, <<END_OF_SCAN_CYCLE, KEY_DOWN>> >>
    /\ log[2].op = "kbapp_procEvtKey"
    /\ \E i \in LogIdx : log[i].op = "tx_std"

(***************************************************************************)
(* C21                                                                     *)
(***************************************************************************)
\* the calls of kbapp_idleRateProc that sent the standard report
IdleRepeats ==
    {i \in LogIdx : /\ log[i].op = "kbapp_idleRateProc"
                    /\ i < Len(log)
                    /\ log[i + 1].op = "tx_std"}

\* C21: kbapp_idleRateProc sends the standard report exactly when the idle
\* rate is nonzero, no recovery is in progress, a standard or modifier key
\* is down, the queue is empty, the buffer utilization is below the
\* threshold and the idle period is over, so never with idle rate 0; and
\* the report it sends is the standard report that was sent last.
C21_IdleRepeat ==
    /\ \A idleDue \in BOOLEAN, poolRoom \in PoolRooms :
          LET m == Machine([NoInput EXCEPT !.idleDue = idleDue,
                                           !.poolRoom = poolRoom])
              r == kbapp_idleRateProc(m)
          IN  (\E i \in 1..Len(r.log) : r.log[i].op = "tx_std")
                <=> /\ kbAppState.idleRate # 0
                    /\ kbAppState.recoveryInProgress = 0
                    /\ kbAppState.keysInStdRpt # 0 \/ kbAppState.modKeysInStdRpt # 0
                    /\ kbAppState.eventQueue = <<>>
                    /\ poolRoom > 0
                    /\ idleDue
    /\ \A i \in IdleRepeats :
          /\ log[i + 1].data = log[i].data
          /\ log[i].recovery = 0
          /\ log[i].queued = 0
          /\ kbAppState.idleRate # 0
          /\ kbAppState.keysInStdRpt # 0 \/ kbAppState.modKeysInStdRpt # 0

\* a poll with nothing to dispatch repeated a report that holds a key
C21_Witness ==
    /\ IdleRepeats # {}
    /\ \A i \in IdleRepeats :
          /\ log[i + 1].data # ZeroStdRptData
          /\ \A j \in 1..(i - 1) : log[j].op \notin TxOps \cup DispatchOps

(***************************************************************************)
(* C22                                                                     *)
(***************************************************************************)
\* the link is connected and, when security is required, encrypted
ReportsAllowed ==
    link.connected /\ (kbAppConfig.securityRequired => link.encrypted)

HasOp(l, ops) == \E i \in 1..Len(l) : l[i].op \in ops

\* C22: poll gating.  kbapp_pollReportUserActivity calls
\* kbapp_generateAndTxReports exactly when the link is connected and, when
\* security is required, encrypted; otherwise the poll dispatches and
\* transmits nothing and leaves the recovery count alone.  Outside pin
\* entry a poll over a link that is not connected asks for a connection
\* exactly when there is activity, and a poll that does not generate
\* reports removes no event from the queue.
C22_PollGating ==
    \A batch \in BackpressureBatches :
        LET r == PollOf(batch, 0, PoolRoomMax)
            pinOff == kbAppState.pinCodeEntryInProgress = PIN_ENTRY_MODE_NONE
        IN  /\ HasOp(r.log, {"kbapp_generateAndTxReports"}) <=> ReportsAllowed
            /\ ~ReportsAllowed =>
                  /\ ~HasOp(r.log, DispatchOps \cup TxOps)
                  /\ r.recoveryInProgress = kbAppState.recoveryInProgress
                  /\ pinOff => IsPrefix(kbAppState.eventQueue, r.eventQueue)
            /\ (pinOff /\ ~link.connected) =>
                  (HasOp(r.log, {"wiced_hidd_link_connect"})
                     <=> \/ r.eventQueue # <<>>
                         \/ r.modKeysInStdRpt # 0 \/ r.keysInStdRpt # 0
                         \/ r.keysInBitRpt # 0 \/ r.slpRpt.sleepVal # 0)
            /\ link.connected => ~HasOp(r.log, {"wiced_hidd_link_connect"})

\* a poll over a link that is not connected queued a key-down and its end
\* of scan cycle and asked for a connection; nothing was generated
C22_Witness ==
    /\ ~link.connected
    /\ kbAppState.eventQueue = <<KeyEvent(0, KEY_DOWN), EndOfScanCycle>>
    /\ HasOp(log, {"wiced_hidd_link_connect"})
    /\ ~HasOp(log, {"kbapp_generateAndTxReports"})

\* the link is connected but not encrypted though security is required:
\* the poll queued the events and generated nothing
C22_WitnessEncryption ==
    /\ link.connected /\ ~link.encrypted /\ kbAppConfig.securityRequired
    /\ kbAppState.eventQueue = <<KeyEvent(0, KEY_DOWN), EndOfScanCycle>>
    /\ HasOp(log, {"wiced_hal_batmon_poll_monitor"})
    /\ ~HasOp(log, {"kbapp_generateAndTxReports"})

(***************************************************************************)
(* C23  Flush as cancellation                                              *)
(***************************************************************************)
Protocols == {PROTOCOL_BOOT, PROTOCOL_REPORT}

\* the event queue after the operations said to cancel the queued input,
\* each applied to the state the keyboard is in
AfterCancelling ==
    LET m == Machine(NoInput)
    IN  {kbapp_procErrKeyscan(m), kbapp_procErrEvtQueue(m),
         kbapp_exitPinAndPassCodeEntryMode(m)}
        \cup {kbapp_setProtocol(m, p) : p \in Protocols \ {kbapp_protocol}}
        \cup (IF kbAppState.pinCodeEntryInProgress = PIN_ENTRY_MODE_NONE
              THEN {kbapp_enterPinCodeEntryMode(m),
                    kbapp_enterPassCodeEntryMode(m)}
              ELSE {})

\* C23: the event queue is empty immediately after an error response of
\* the dispatcher, after kbapp_setProtocol with a different protocol, after
\* an accepted kbapp_enterPinCodeEntryMode or kbapp_enterPassCodeEntryMode,
\* and after kbapp_exitPinAndPassCodeEntryMode
C23_FlushAsCancellation ==
    \A m \in AfterCancelling : Len(m.eventQueue) = 0

(***************************************************************************)
(* C24  What the callbacks outside a poll change                           *)
(***************************************************************************)
\* the event queue, the key reports, their changed flags, the key counters
\* and the recovery count
Aggregate(m) ==
    [eventQueue         |-> m.eventQueue,
     stdRpt             |-> m.stdRpt,
     bitMappedReport    |-> m.bitMappedReport,
     slpRpt             |-> m.slpRpt,
     scrollReport       |-> m.scrollReport,
     stdRptChanged      |-> m.stdRptChanged,
     bitRptChanged      |-> m.bitRptChanged,
     slpRptChanged      |-> m.slpRptChanged,
     scrollRptChanged   |-> m.scrollRptChanged,
     keysInStdRpt       |-> m.keysInStdRpt,
     modKeysInStdRpt    |-> m.modKeysInStdRpt,
     keysInBitRpt       |-> m.keysInBitRpt,
     recoveryInProgress |-> m.recoveryInProgress]

\* the aggregate after a flush of the user input
Flushed ==
    [eventQueue         |-> <<>>,
     stdRpt             |-> [modifierKeys |-> 0,
                             keyCodes |-> [i \in 1..maxKeysInStdRpt |-> 0]],
     bitMappedReport    |-> [bitMappedKeys |-> [i \in 1..NumBitRptBytes |-> 0]],
     slpRpt             |-> [sleepVal |-> 0],
     scrollReport       |-> [motionAxis0 |-> 0],
     stdRptChanged      |-> FALSE,
     bitRptChanged      |-> FALSE,
     slpRptChanged      |-> FALSE,
     scrollRptChanged   |-> FALSE,
     keysInStdRpt       |-> 0,
     modKeysInStdRpt    |-> 0,
     keysInBitRpt       |-> 0,
     recoveryInProgress |-> 0]

\* the aggregate after a switch to report protocol: the reports sent in
\* report protocol only are cleared
ReportModeCleared(a) ==
    [a EXCEPT !.bitMappedReport = Flushed.bitMappedReport,
              !.keysInBitRpt = 0,
              !.slpRpt = Flushed.slpRpt,
              !.scrollReport = Flushed.scrollReport,
              !.scrollRptChanged = FALSE]

\* the callbacks that flush the user input, applied to the current state
FlushingCallbacks ==
    LET m == Machine(NoInput)
    IN  {kbapp_connectFailedNotification(m), kbapp_shutdown(m)}
        \cup (IF kbAppState.pinCodeEntryInProgress = PIN_ENTRY_MODE_NONE
              THEN {kbapp_enterPinCodeEntryMode(m),
                    kbapp_enterPassCodeEntryMode(m)}
              ELSE {})

\* the callbacks that leave the aggregate alone, applied to the current state
QuietCallbacks ==
    LET m == Machine(NoInput)
    IN  {kbapp_setIdleRate(m, r) : r \in IdleRates}
        \cup {kbapp_batLevelChangeNotification(m, l) : l \in BatLevels}
        \cup {kbapp_exitPinAndPassCodeEntryMode(m)}
        \cup (IF kbAppState.pinCodeEntryInProgress # PIN_ENTRY_MODE_NONE
              THEN {kbapp_enterPinCodeEntryMode(m),
                    kbapp_enterPassCodeEntryMode(m)}
              ELSE {})

\* C24 (as amended): outside a poll, kbapp_setIdleRate,
\* kbapp_batLevelChangeNotification, kbapp_exitPinAndPassCodeEntryMode and a
\* rejected pin or pass code request leave the aggregate unchanged;
\* kbapp_setProtocol changes it only on a switch to report protocol, where
\* it clears the bit-mapped, sleep and scroll reports; the connect failure,
\* the shutdown and an accepted pin or pass code request leave it flushed
C24_CallbackFrame ==
    LET m == Machine(NoInput)
    IN  /\ \A q \in QuietCallbacks : Aggregate(q) = Aggregate(m)
        /\ \A p \in Protocols :
               Aggregate(kbapp_setProtocol(m, p)) =
                   IF p # kbapp_protocol /\ p = PROTOCOL_REPORT
                   THEN ReportModeCleared(Aggregate(m)) ELSE Aggregate(m)
        /\ \A f \in FlushingCallbacks : Aggregate(f) = Flushed

\* C24 as stated: every callback outside a poll leaves the aggregate
\* unchanged
C24_AsStated ==
    LET m == Machine(NoInput)
    IN  \A c \in QuietCallbacks \cup FlushingCallbacks
                  \cup {kbapp_setProtocol(m, p) : p \in Protocols} :
            Aggregate(c) = Aggregate(m)

\* the battery level changed while a key was held and its event was still
\* queued: the report went out and the aggregate is what the poll left
C24_Witness ==
    /\ Len(log) = 1 /\ log[1].op = "tx_bat"
    /\ Len(kbAppState.eventQueue) # 0
    /\ kbAppState.keysInStdRpt # 0

(***************************************************************************)
(* C25  Battery report on level change                                     *)
(***************************************************************************)
\* the battery monitor notifies the level newLevel in the current state
BatLevelNotified(newLevel) ==
    kbapp_batLevelChangeNotification(Machine(NoInput), newLevel)

\* the notification stored the level and sent exactly the battery report
BatRptSent(m, newLevel) ==
    /\ m.batRpt.level = newLevel
    /\ Len(m.log) = 1
    /\ m.log[1].op = "tx_bat" /\ m.log[1].data = <<newLevel>>

UserDefinedEvent ==
    [eventType |-> "HID_EVENT_USER_DEFINED", keyCode |-> 0,
     upDownFlag |-> 0, motion |-> 0]

\* one iteration of the drain loop on queue q removed the event at the
\* head of q or flushed the queue
DrainProgress(q, m) ==
    m.eventQueue = <<>> \/ IsSuffix(m.eventQueue, Tail(q))

RecoveryInputs == BackpressureBatches \X {0, PoolRoomMax}

\* the inputs of the recoveryPollCount polls that follow an error response
RecoveryRuns == [1..recoveryPollCount -> RecoveryInputs]

\* the polls of run one after the other; the log keeps growing
RECURSIVE RunInputs(_, _, _)
RunInputs(m, run, i) ==
    IF i > Len(run) THEN m
    ELSE RunInputs(
             kbapp_pollReportUserActivity(
                 [m EXCEPT !.keyscanEvents = run[i][1], !.scrollCount = 0,
                           !.poolRoom = run[i][2], !.idleDue = FALSE]),
             run, i + 1)

\* the positions of l where kbapp_generateAndTxReports was called, in order
Generates(l) ==
    LET RECURSIVE Pick(_)
        Pick(i) == IF i > Len(l) THEN <<>>
                   ELSE IF l[i].op = "kbapp_generateAndTxReports"
                        THEN <<i>> \o Pick(i + 1) ELSE Pick(i + 1)
    IN  Pick(1)

\* the poll that has just ended made an error response and left the
\* recovery window open; reports may be generated
RecoveryOpened ==
    /\ HasOp(log, {"kbapp_stdErrResp"})
    /\ kbAppState.recoveryInProgress # 0
    /\ kbAppState.pinCodeEntryInProgress = PIN_ENTRY_MODE_NONE
    /\ ReportsAllowed

C28_DecrementOnlyWithRoom ==
    (/\ kbAppState.recoveryInProgress # 0
     /\ kbAppState.pinCodeEntryInProgress = PIN_ENTRY_MODE_NONE
     /\ ReportsAllowed)
      => \A batch \in BackpressureBatches :
             LET res == PollOf(batch, 0, 0)
             IN  /\ res.recoveryInProgress = kbAppState.recoveryInProgress
                 /\ ~HasOp(res.log, TxOps)

(***************************************************************************)
(* C29  Scan cycles and their terminators in the queue                     *)
(***************************************************************************)
ConnectButton == KeyEvent(kbAppConfig.connectButtonScanIndex, KEY_DOWN)

\* scan cycles as the keyscan driver delivers them: a key, the connect
\* button, both, or nothing, and the end of the scan cycle
ScanCycles ==
    {<<KeyEvent(0, KEY_DOWN), EndOfScanCycle>>,
     <<ConnectButton, EndOfScanCycle>>,
     <<KeyEvent(0, KEY_DOWN), ConnectButton, EndOfScanCycle>>,
     <<EndOfScanCycle>>}

\* streams of one or two scan cycles
ScanStreams == ScanCycles \cup {c \o d : c \in ScanCycles, d \in ScanCycles}

\* what the queue is to hold of a stream: the keys of every cycle with the
\* end of the scan cycle behind them, and nothing of a cycle without a key
RECURSIVE Terminated(_, _)
Terminated(stream, keys) ==
    IF stream = <<>> THEN <<>>
    ELSE LET e == Head(stream)
         IN  IF e = EndOfScanCycle
             THEN (IF keys = <<>> THEN <<>> ELSE keys \o <<e>>)
                      \o Terminated(Tail(stream), <<>>)
             ELSE Terminated(Tail(stream),
                             IF e = ConnectButton THEN keys
                             ELSE Append(keys, e))

\* the queue after two polls of kbapp_pollActivityKey, the first finding
\* the first i events of the stream and the second the rest
QueuedInTwoPolls(stream, i) ==
    LET m1 == kbapp_pollActivityKey(
                  [Machine(NoInput) EXCEPT
                      !.keyscanEvents = SubSeq(stream, 1, i)])
        m2 == kbapp_pollActivityKey(
                  [m1 EXCEPT !.keyscanEvents = SubSeq(stream, i + 1, Len(stream))])
    IN  m2.eventQueue

\* C29: however a stream of scan cycles is split across two polls of
\* kbapp_pollActivityKey, an empty queue with room for the stream ends up
\* holding every key event of the stream but the connect button, each
\* cycle with a key followed by its END_OF_SCAN_CYCLE, and no
\* END_OF_SCAN_CYCLE of a cycle without a key
C29_TerminatedCycles ==
    kbAppState.eventQueue = <<>> =>
        \A stream \in ScanStreams :
            Len(Terminated(stream, <<>>)) < maxEventNum =>
                \A i \in 0..Len(stream) :
                    QueuedInTwoPolls(stream, i) = Terminated(stream, <<>>)

(***************************************************************************)
(* C30  The indices kbKeyConfig[] is read with                             *)
(***************************************************************************)
\* what the keyscan driver can hold at a poll during pin entry and outside
LookupBatches ==
    ScanBatches(KeyEvents(PinKeys) \cup {EndOfScanCycle, GhostEvent}, MaxBatch)

\* C30: in every poll, in pin entry or not, whatever key events are queued
\* (keys, END_OF_SCAN_CYCLE, ghost scan codes), kbKeyConfig[] is read only
\* with an index below kbKeyConfig_size
C30_LookupsInBounds ==
    \A batch \in LookupBatches :
        LET reads == PollOf(batch, 0, PoolRoomMax).keyConfigReads
        IN  \A i \in 1..Len(reads) : reads[i] < kbKeyConfig_size

(***************************************************************************)
(* C31  The standard report and what the host saw last                     *)
(***************************************************************************)
\* C31: in every state with stdRptChanged FALSE and no recovery in
\* progress the standard report equals the standard report transmitted
\* last, or is empty when none was transmitted
C31_HostViewConsistent ==
    (~kbAppState.stdRptChanged /\ kbAppState.recoveryInProgress = 0)
      => StdRptData(kbAppState.stdRpt) =
             IF stdRptSent = <<>> THEN ZeroStdRptData ELSE stdRptSent

(***************************************************************************)
(* C32  The func-lock report after a toggle                                *)
(***************************************************************************)
\* C32: funcLockRptChanged, set by a toggle, is cleared only by
\* kbapp_funcLockRptSend: when an entry point that toggled the func-lock
\* state ends with funcLockRptChanged FALSE, it transmitted the func-lock
\* report after the toggle, with the status the report has now
C32_FuncLockChangeNotLost ==
    ~kbAppState.funcLockRptChanged =>
        \A i \in OpsAt({"kbapp_funcLockToggle"}) :
            \E j \in OpsAt({"tx_funcLock"}) :
                /\ j > i
                /\ log[j].data = <<kbAppState.funcLockRpt.status>>

(***************************************************************************)
(* C33  Removal of a standard key on key-up                                *)
(***************************************************************************)
\* the key-up of standard key k processed in the current state
StdKeyUp(k) ==
    kbapp_stdRptProcEvtKeyUp(Machine(NoInput), KEY_UP, k, Usage(k))

\* C33: the key-up of a key that is in the standard report removes that
\* one entry: keysInStdRpt goes down by one, the other codes are all still
\* in the first keysInStdRpt slots, the vacated last slot and the slots
\* behind it are 0, the modifier byte is as it was and the report is marked
\* changed; the key-up of a key that is not in the report changes nothing
C33_KeyUpRemoval ==
    \A k \in StdScanCodes :
        LET r == StdKeyUp(k)
            n == kbAppState.keysInStdRpt
        IN  IF Usage(k) \in KeySet(kbAppState)
            THEN /\ r.keysInStdRpt = n - 1
                 /\ KeySet(r) = KeySet(kbAppState) \ {Usage(k)}
                 /\ Cardinality(KeySet(r)) = n - 1
                 /\ \A i \in n..maxKeysInStdRpt : r.stdRpt.keyCodes[i] = 0
                 /\ r.stdRpt.modifierKeys = kbAppState.stdRpt.modifierKeys
                 /\ r.stdRptChanged
            ELSE r = Machine(NoInput)

\* two keys were down; a poll dispatched the key-up of the one in the first
\* slot and sent the report with the other key moved to the front
C33_Witness ==
    /\ kbAppState.keysInStdRpt = 1
    /\ \E i \in LogIdx, k \in StdScanCodes :
           /\ log[i].op = "kbapp_stdRptProcEvtKey"
           /\ log[i].data = <<KEY_UP, k, Usage(k)>>
           /\ \E j \in LogIdx :
                  /\ j > i /\ log[j].op = "tx_std"
                  /\ log[j].data[2] # 0 /\ log[j].data[2] # Usage(k)
                  /\ log[j].data[3] = 0
           /\ stdRptSent # <<>>

(***************************************************************************)
(* C34  The func-lock key during recovery and in boot protocol             *)
(***************************************************************************)
\* the func-lock state, the key position, the toggle flag, the func-lock
\* report and its changed flag
FuncLockState(m) ==
    << m.funcLockInfo, m.funcLockRpt, m.funcLockRptChanged, m.kbapp_funcLock_state >>

\* C34: while a recovery is in progress or the protocol is boot, a
\* func-lock key-down or key-up leaves the lock state, the key position,
\* toggleStateOnKeyUp, the func-lock report and funcLockRptChanged as they
\* are
C34_FuncLockKeyIgnored ==
    (kbAppState.recoveryInProgress # 0 \/ kbapp_protocol = PROTOCOL_BOOT)
      => \A upDownFlag \in {KEY_DOWN, KEY_UP} :
             LET m == Machine(NoInput)
                 r == kbapp_funcLockProcEvtKey(m, upDownFlag, SC_FUNCLOCK,
                                               kbKeyConfig(SC_FUNCLOCK).translationValue)
             IN  FuncLockState(r) = FuncLockState(m)

\* in boot protocol, with the key held since report protocol and the toggle
\* on key-up pending, a poll dispatched the func-lock key-up: no toggle
C34_Witness ==
    /\ kbapp_protocol = PROTOCOL_BOOT
    /\ kbAppState.funcLockInfo.kepPosition = "FUNC_LOCK_KEY_DOWN"
    /\ kbAppState.funcLockInfo.toggleStateOnKeyUp
    /\ \E i \in LogIdx :
           /\ log[i].op = "kbapp_funcLockProcEvtKey"
           /\ log[i].data[1] = KEY_UP
    /\ ~HasOp(log, {"kbapp_funcLockToggle"})

(***************************************************************************)
(* Specification: the modifier keys                                        *)
(* two modifier keys with single-bit masks and ghost keys; the host        *)
(* switches the protocol; a failed connection flushes the input            *)
(***************************************************************************)
ModScanCodes == {SC_MOD, SC_MOD2}

ModBatches ==
    ScanBatches(KeyEvents(ModScanCodes) \cup {EndOfScanCycle, GhostEvent}, MaxBatch)

PollMod == PollWith(ModBatches, {0}, {PoolRoomMax})

NextMod ==
    \/ PollMod
    \/ SetProtocol
    \/ ConnectFailed

SpecMod == Init /\ [][NextMod]_vars

(***************************************************************************)
(* C35  Modifier tracking                                                  *)
(***************************************************************************)
\* the effect of one modifier key event on the machine m
ModKeyEffect(m, upDownFlag, keyCode) ==
    LET mask == kbKeyConfig(keyCode).translationValue
        r    == kbapp_stdRptProcEvtModKey(m, upDownFlag, keyCode, mask)
        was  == BitAnd(m.stdRpt.modifierKeys, mask) # 0
    IN  IF (upDownFlag = KEY_DOWN) = was
        THEN \* repeated key-down, or key-up of a modifier that is not down
             /\ r.stdRpt = m.stdRpt
             /\ r.modKeysInStdRpt = m.modKeysInStdRpt
             /\ r.stdRptChanged = m.stdRptChanged
        ELSE /\ r.stdRpt.modifierKeys # m.stdRpt.modifierKeys
             /\ r.stdRpt.modifierKeys =
                    IF upDownFlag = KEY_DOWN
                    THEN m.stdRpt.modifierKeys + mask
                    ELSE m.stdRpt.modifierKeys - mask
             /\ r.stdRpt.keyCodes = m.stdRpt.keyCodes
             /\ r.stdRptChanged

\* C35: with modifier keys of single-bit masks, modKeysInStdRpt is the
\* number of bits set in stdRpt.modifierKeys in every reachable state, and a
\* modifier key event marks the standard report changed only when it changes
\* the modifier byte: a repeated key-down, and a key-up of a modifier that
\* is not down, change nothing
C35_ModifierTracking ==
    /\ kbAppState.modKeysInStdRpt = PopCount(kbAppState.stdRpt.modifierKeys)
    /\ \A upDownFlag \in {KEY_DOWN, KEY_UP} : \A keyCode \in ModScanCodes :
           ModKeyEffect(Machine(NoInput), upDownFlag, keyCode)

\* both modifiers are down after a poll that dispatched a key-down of a
\* modifier that was down already: nothing is marked and nothing is sent
C35_Witness ==
    /\ kbAppState.modKeysInStdRpt = 2
    /\ kbAppState.recoveryInProgress = 0
    /\ ~kbAppState.stdRptChanged
    /\ \E i \in LogIdx :
           /\ log[i].op = "kbapp_stdRptProcEvtModKey"
           /\ log[i].data[1] = KEY_DOWN
    /\ ~HasOp(log, {"tx_std"})

(***************************************************************************)
(* C36  Queuing of scroll events                                           *)
(***************************************************************************)
\* the machine at the start of a poll in which scroll_getCount() returns
\* count
ScrollPolled(count) == [Machine(NoInput) EXCEPT !.scrollCount = count]

\* C36: with scroll scaling enabled, kbapp_pollActivityScroll adds a scroll
\* event only if the scaled non-fractional motion of that poll is nonzero;
\* when the motion scales to 0 nothing is queued and only the fractional
\* accumulator changes
C36_WholeMotionQueued ==
    \A count \in ScrollCounts :
        LET m == ScrollPolled(count)
            r == kbapp_pollActivityScroll(m)
        IN  m.kbAppConfig.scrollScale # 0 =>
                /\ r.eventQueue # m.eventQueue =>
                       r.eventQueue[Len(r.eventQueue)].motion # 0
                /\ \A i \in 1..Len(r.eventQueue) :
                       r.eventQueue[i].eventType = "HID_EVENT_MOTION_AXIS_0"
                           => r.eventQueue[i].motion # 0

(***************************************************************************)
(* Specification: the scroll wheel on a BLE link                           *)
(* the host is connected over LE and writes the protocol mode              *)
(* characteristic; scaling as in the scroll specification                  *)
(***************************************************************************)
InitScrollLE ==
    /\ kbAppConfig \in ScrollConfigs
    /\ kbAppState = InitState(kbAppConfig)
    /\ kbapp_protocol = PROTOCOL_REPORT
    /\ kbapp_funcLock_state = kbAppConfig.defaultFuncLockState
    /\ link = [connected |-> TRUE, encrypted |-> TRUE,
               transport |-> "BT_TRANSPORT_LE"]
    /\ log = <<>>
    /\ rolloversInWindow = 0
    /\ stdRptSent = <<>>

NextScrollLE ==
    \/ PollScroll
    \/ BleSetProtocol
    \/ ConnectFailed

SpecScrollLE == InitScrollLE /\ [][NextScrollLE]_vars

(***************************************************************************)
(* C37  What a scroll report is sent for                                   *)
(***************************************************************************)
\* the calls of kbapp_scrollRptSend in the log: on LE the volume pulse (the
\* release that follows it carries 0), on BR/EDR every scroll report
ScrollSends ==
    {i \in OpsAt({"tx_scroll"}) :
        link.transport = "BT_TRANSPORT_LE" => log[i].data[1] # 0}

\* the call at position i is the last thing the poll did to the scroll
\* report: the report of the state is the report the call sent
LastOnScroll(i) ==
    \A j \in OpsAt({"kbapp_procEvtScroll", "kbapp_stdErrResp"}) : j < i

\* C37: every call of kbapp_scrollRptSend happens with a nonzero
\* scrollReport.motionAxis0; on BLE the volume-up pulse is sent only for
\* positive and the volume-down pulse only for negative motion, also when
\* scroll events were processed in boot protocol before the report is sent
C37_ScrollSentForMotion ==
    \A i \in ScrollSends :
        IF link.transport = "BT_TRANSPORT_LE"
        THEN LastOnScroll(i) =>
                LET motion == kbAppState.scrollReport.motionAxis0
                IN  /\ motion # 0
                    /\ (log[i].data[1] = SCROLL_REPORT_VOLUME_UP) = (motion > 0)
                    /\ (log[i].data[1] = SCROLL_REPORT_VOLUME_DOWN) = (motion < 0)
        ELSE log[i].data[1] # 0

(***************************************************************************)
(* Specification: editing the pin code                                     *)
(* a digit key and backspace; the transport asks for a pin code or a pass   *)
(* code and ends the entry                                                 *)
(***************************************************************************)
PinEditKeys == {0, SC_BACKSPACE}

PollPinEdit ==
    \E batch \in ScanBatches(KeyEvents(PinEditKeys) \cup {EndOfScanCycle}, MaxBatch),
       oob \in OobReads :
        Commit(kbapp_pollReportUserActivity(
                   Machine([NoInput EXCEPT !.keyscanEvents = batch,
                                           !.poolRoom = PoolRoomMax,
                                           !.oob = oob])))

NextPinEdit ==
    \/ PollPinEdit
    \/ EnterPinCodeEntryMode
    \/ EnterPassCodeEntryMode
    \/ ExitPinAndPassCodeEntryMode

SpecPinEdit == Init /\ [][NextPinEdit]_vars

(***************************************************************************)
(* C38  Editing the pin buffer                                             *)
(***************************************************************************)
\* what kbapp_handlePinEntry, run on the machine m with the one key event
\* ev in the queue, does to the pin buffer
PinEdit(m, ev) ==
    LET r     == kbapp_handlePinEntry([m EXCEPT !.eventQueue = <<ev>>])
        cfg   == kbKeyConfig(ev.keyCode)
        usage == cfg.translationValue
        digit == NumericKeyAsciiCode(usage)
        same  == /\ r.pinCodeBuffer = m.pinCodeBuffer
                 /\ r.pinCodeSize = m.pinCodeSize
    IN  IF ev.upDownFlag = KEY_UP \/ cfg.type # "KEY_TYPE_STD"
        THEN same
        ELSE CASE usage \in {USB_USAGE_BACKSPACE, USB_USAGE_DELETE} ->
                    /\ r.pinCodeBuffer = m.pinCodeBuffer
                    /\ r.pinCodeSize =
                          IF m.pinCodeSize # 0 THEN m.pinCodeSize - 1 ELSE 0
               [] usage = USB_USAGE_ESCAPE ->
                    /\ r.pinCodeBuffer = m.pinCodeBuffer
                    /\ r.pinCodeSize = 0
               [] usage \notin {USB_USAGE_BACKSPACE, USB_USAGE_DELETE,
                                USB_USAGE_ESCAPE} /\ digit # 255 ->
                    IF m.pinCodeSize < m.maxPinCodeSize
                    THEN /\ r.pinCodeSize = m.pinCodeSize + 1
                         /\ r.pinCodeBuffer =
                               [m.pinCodeBuffer EXCEPT ![m.pinCodeSize + 1] =
                                                           digit + ASCII_0]
                    ELSE same
               [] OTHER -> same

\* C38: while pin or pass code entry is armed and Enter is not latched, a
\* digit key-down appends one ASCII digit only if pinCodeSize is below
\* maxPinCodeSize and is otherwise ignored, backspace and delete decrement
\* pinCodeSize only when it is nonzero, escape sets it to 0, and key-up
\* events and keys that are not standard keys leave the buffer alone; in
\* every reachable state 0 <= pinCodeSize <= maxPinCodeSize
C38_PinBufferEditing ==
    /\ kbAppState.pinCodeSize >= 0
    /\ kbAppState.pinCodeSize <= kbAppState.maxPinCodeSize
    /\ (kbAppState.pinCodeEntryInProgress # PIN_ENTRY_MODE_NONE
          /\ kbAppState.enterKeyPressed = 0)
         => \A ev \in KeyEvents(0..(kbKeyConfig_size - 1)) :
                PinEdit(Machine(NoInput), ev)

\* pass code entry, after a poll in which a digit filled the buffer and was
\* taken back (the key press reports carry the codes of row
\* pinCodeEntryInProgress & 1 of pinCodeEventTransTab)
C38_Witness ==
    /\ kbAppState.pinCodeEntryInProgress = PASS_KEY_ENTRY_IN_PROGRESS
    /\ kbAppState.enterKeyPressed = 0
    /\ kbAppState.pinCodeSize = kbAppState.maxPinCodeSize - 1
    /\ \E i, j \in OpsAt({"bthidlink_passCodeKeyPressReport"}) :
           /\ i < j
           /\ log[i].data = <<PIN_ENTRY_EVENT_CHAR>>
           /\ log[j].data = <<PIN_ENTRY_EVENT_BACKSPACE>>

(***************************************************************************)
(* C39  A second pin or pass code request                                  *)
(***************************************************************************)
\* the request r made on the machine m was rejected: a disconnect is
\* requested and nothing else changes
Rejected(m, r) ==
    /\ r.log = Call(m, "wiced_hidd_disconnect", <<>>).log
    /\ [r EXCEPT !.log = m.log] = m

\* the request r made on the machine m was accepted: the user input is
\* flushed, the pin buffer is empty and the entry mode is armed
Accepted(m, r, mode, size) ==
    /\ Aggregate(r) = Flushed
    /\ ~r.pinRptChanged /\ ~r.funcLockRptChanged
    /\ r.scrollFractional = 0
    /\ r.pinCodeSize = 0
    /\ r.maxPinCodeSize = size
    /\ \A i \in 1..size : r.pinCodeBuffer[i] = 0
    /\ r.enterKeyPressed = 0
    /\ r.pinCodeEntryInProgress = mode
    /\ ~HasOp(r.log, {"wiced_hidd_disconnect"})

\* C39: a pin or pass code request made while pinCodeEntryInProgress is not
\* NONE requests a disconnect and leaves the entry mode, the pin buffer and
\* its size, enterKeyPressed, the event queue and all reports unchanged;
\* with no entry pending the request flushes the user input, empties the
\* pin buffer and arms the requested mode
C39_SecondRequestRejected ==
    LET m    == Machine(NoInput)
        pin  == kbapp_enterPinCodeEntryMode(m)
        pass == kbapp_enterPassCodeEntryMode(m)
    IN  IF kbAppState.pinCodeEntryInProgress # PIN_ENTRY_MODE_NONE
        THEN Rejected(m, pin) /\ Rejected(m, pass)
        ELSE /\ Accepted(m, pin, LEGACY_PIN_ENTRY_IN_PROGRESS, MAX_PIN_SIZE)
             /\ Accepted(m, pass, PASS_KEY_ENTRY_IN_PROGRESS, MAX_PASS_SIZE)

\* a request was rejected while a pin code with a digit in the buffer and
\* the Enter key latched was pending
C39_Witness ==
    /\ kbAppState.pinCodeEntryInProgress = LEGACY_PIN_ENTRY_IN_PROGRESS
    /\ kbAppState.pinCodeSize # 0
    /\ kbAppState.enterKeyPressed # 0
    /\ Len(log) = 1
    /\ log[1].op = "wiced_hidd_disconnect"

(***************************************************************************)
(* C40  No recovery while a pin is entered                                 *)
(***************************************************************************)
\* C40: in every reachable state in which pin or pass code entry is in
\* progress no recovery is in progress
C40_NoRecoveryInPinEntry ==
    kbAppState.pinCodeEntryInProgress # PIN_ENTRY_MODE_NONE
        => kbAppState.recoveryInProgress = 0

\* a poll during pin code entry found one event, a digit key-down with no
\* END_OF_SCAN_CYCLE behind it, which the dispatcher would answer with the
\* error response: the pin handler took the digit and the pin report went
\* out
C40_Witness ==
    /\ kbAppState.pinCodeEntryInProgress = LEGACY_PIN_ENTRY_IN_PROGRESS
    /\ kbAppState.recoveryInProgress = 0
    /\ kbAppState.pinCodeSize # 0
    /\ Cardinality(OpsAt({"wiced_hidd_event_queue_remove_current_element"})) = 1
    /\ HasOp(log, {"tx_pin"})
    /\ ~HasOp(log, {"kbapp_stdErrResp"})

====
